---- MODULE Spec2Model ----
(***************************************************************************)
(* aliesce: a source document is split into numbered scripts, each        *)
(* preceded by a tag line; every selected script is resolved to an output *)
(* (text or file), the number -> path context is built, and the outputs   *)
(* are applied in order (print, or save then run).                        *)
(*                                                                         *)
(* A string is a sequence of one-character strings, so that splitting,    *)
(* searching, trimming and replacing are computed as the code computes    *)
(* them.  Fixed message texts are kept as one chunk.                      *)
(***************************************************************************)
EXTENDS Integers, Sequences, FiniteSets, TLC

(* the longest document, in scripts *)
MaxScripts == 2

(* ---------------------------------------------------------------------- *)
(* std string operations, as the code uses them                            *)
(* ---------------------------------------------------------------------- *)

Digits == <<"0","1","2","3","4","5","6","7","8","9">>

IsDigit(c) == \E d \in 1..10 : Digits[d] = c

DigitVal(c) == (CHOOSE d \in 1..10 : Digits[d] = c) - 1

(* format!("{n}") of an unsigned number *)
RECURSIVE to_string(_)
to_string(n) ==
  IF n < 10 THEN <<Digits[n + 1]>>
  ELSE to_string(n \div 10) \o <<Digits[(n % 10) + 1]>>

(* char::is_whitespace, on the characters a document can hold *)
is_whitespace(c) == c \in {" ", "\t", "\n", "\r"}

RECURSIVE trim_start(_)
trim_start(s) ==
  IF s # <<>> /\ is_whitespace(Head(s)) THEN trim_start(Tail(s)) ELSE s

RECURSIVE trim_end(_)
trim_end(s) ==
  IF s # <<>> /\ is_whitespace(s[Len(s)])
  THEN trim_end(SubSeq(s, 1, Len(s) - 1))
  ELSE s

(* str::trim *)
trim(s) == trim_end(trim_start(s))

(* pat occurs in s at the 1-based position i *)
starts_at(s, pat, i) ==
  /\ i + Len(pat) - 1 <= Len(s)
  /\ SubSeq(s, i, i + Len(pat) - 1) = pat

(* the first 1-based position from i on where pat occurs in s, or 0 *)
RECURSIVE find_from(_, _, _)
find_from(s, pat, i) ==
  IF i + Len(pat) - 1 > Len(s) THEN 0
  ELSE IF starts_at(s, pat, i) THEN i
  ELSE find_from(s, pat, i + 1)

(* str::find: the 0-based index of the first occurrence of pat, or -1 for None *)
find(s, pat) == find_from(s, pat, 1) - 1

(* str::contains *)
contains(s, pat) == find(s, pat) # -1

(* str::split on a non-empty pattern: empty parts are kept *)
RECURSIVE split(_, _)
split(s, pat) ==
  LET i == find(s, pat) IN
  IF i = -1 THEN <<s>>
  ELSE <<SubSeq(s, 1, i)>> \o split(SubSeq(s, i + Len(pat) + 1, Len(s)), pat)

(* slice::join *)
RECURSIVE join(_, _)
join(parts, sep) ==
  IF parts = <<>> THEN <<>>
  ELSE IF Len(parts) = 1 THEN parts[1]
  ELSE parts[1] \o sep \o join(Tail(parts), sep)

(* str::replace: every non-overlapping occurrence, left to right *)
RECURSIVE replace(_, _, _)
replace(s, from, to) ==
  LET i == find(s, from) IN
  IF i = -1 THEN s
  ELSE SubSeq(s, 1, i) \o to \o replace(SubSeq(s, i + Len(from) + 1, Len(s)), from, to)

(* Iterator::filter(|item| !item.is_empty()) *)
RECURSIVE filter_nonempty(_)
filter_nonempty(items) ==
  IF items = <<>> THEN <<>>
  ELSE IF Head(items) = <<>> THEN filter_nonempty(Tail(items))
  ELSE <<Head(items)>> \o filter_nonempty(Tail(items))

(* `as i8` of a non-negative index: the low 8 bits, two's complement *)
as_i8(i) == LET m == i % 256 IN IF m >= 128 THEN m - 256 ELSE m

(* the value of a string of digits *)
RECURSIVE digits_val(_)
digits_val(s) ==
  IF s = <<>> THEN 0
  ELSE 10 * digits_val(SubSeq(s, 1, Len(s) - 1)) + DigitVal(s[Len(s)])

(* parse_i8 with the range of a 16-bit integer *)
parse_i8_wide(s) ==
  LET signed == s # <<>> /\ s[1] \in {"+", "-"}
      body   == IF signed THEN Tail(s) ELSE s
      wellf  == body # <<>> /\ \A k \in 1..Len(body) : IsDigit(body[k])
      val    == IF signed /\ s[1] = "-" THEN 0 - digits_val(body) ELSE digits_val(body)
  IN IF wellf /\ val >= -32768 /\ val <= 32767
     THEN [ok |-> TRUE, val |-> val]
     ELSE [ok |-> FALSE, val |-> 0]

(* str::parse::<i8>: an optional sign, then one or more digits, in -128..127 *)
parse_i8(s) ==
  LET signed == s # <<>> /\ s[1] \in {"+", "-"}
      body   == IF signed THEN Tail(s) ELSE s
      wellf  == body # <<>> /\ \A k \in 1..Len(body) : IsDigit(body[k])
      val    == IF signed /\ s[1] = "-" THEN 0 - digits_val(body) ELSE digits_val(body)
  IN IF wellf /\ val >= -128 /\ val <= 127
     THEN [ok |-> TRUE, val |-> val]
     ELSE [ok |-> FALSE, val |-> 0]

(* ---------------------------------------------------------------------- *)
(* configuration                                                           *)
(* ---------------------------------------------------------------------- *)

DEFAULTS ==
  [ path_src     |-> <<"s","r","c",".","t","x","t">>,
    path_dir     |-> <<"s","c","r","i","p","t","s">>,
    tag_head     |-> <<"#","#","#">>,
    tag_tail     |-> <<"#">>,
    sig_stop     |-> <<"!">>,
    plc_path_dir |-> <<">">>,
    plc_path_all |-> <<">","{","}","<">>,
    cmd_prog     |-> <<"b","a","s","h">>,
    cmd_flag     |-> <<"-","c">> ]

(* Config::get: the first string of the receipt when it is a Strs, else the default *)
Config_get(receipts, key_receipt, key_default) ==
  IF key_receipt \in DOMAIN receipts /\ receipts[key_receipt].kind = "Strs"
  THEN receipts[key_receipt].strs[1]
  ELSE DEFAULTS[key_default]

(* ---------------------------------------------------------------------- *)
(* OUTPUT                                                                  *)
(* ---------------------------------------------------------------------- *)

Panic == [kind |-> "Panic"]

OutputText_Stdout(text) == [kind |-> "Text", stream |-> "Stdout", text |-> text]

OutputText_Stderr(text) == [kind |-> "Text", stream |-> "Stderr", text |-> text]

(* OutputFilePath::get *)
OutputFilePath_get(path) == path.dir \o <<"/">> \o path.stem \o <<".">> \o path.ext

(* OutputFile_new_path with the stem cut at the first dot of the filename *)
OutputFile_new_path_first_part(data, receipts) ==
  LET parts_all  == split(data[1], <<"/">>)
      path_dir   == Config_get(receipts, "dest", "path_dir")
      parts_plc  == IF DEFAULTS.plc_path_dir = parts_all[1]
                    THEN [parts_all EXCEPT ![1] = path_dir]
                    ELSE parts_all
      parts_path == SubSeq(parts_plc, 1, Len(parts_plc) - 1)
      parts_filename == split(parts_plc[Len(parts_plc)], <<".">>)
      p_f_len    == Len(parts_filename)
  IN [ dir  |-> IF parts_path # <<>> THEN join(parts_path, <<"/">>) ELSE path_dir,
       stem |-> IF p_f_len > 1
                THEN parts_filename[1]
                ELSE split(Config_get(receipts, "path_src", "path_src"), <<".">>)[1],
       ext  |-> parts_filename[p_f_len] ]

(* OutputFile_new_path with the default directory name for the placeholder *)
OutputFile_new_path_default_dir(data, receipts) ==
  LET parts_all  == split(data[1], <<"/">>)
      path_dir   == Config_get(receipts, "dest", "path_dir")
      parts_plc  == IF DEFAULTS.plc_path_dir = parts_all[1]
                    THEN [parts_all EXCEPT ![1] = DEFAULTS.path_dir]
                    ELSE parts_all
      parts_path == SubSeq(parts_plc, 1, Len(parts_plc) - 1)
      parts_filename == split(parts_plc[Len(parts_plc)], <<".">>)
      p_f_len    == Len(parts_filename)
  IN [ dir  |-> IF parts_path # <<>> THEN join(parts_path, <<"/">>) ELSE path_dir,
       stem |-> IF p_f_len > 1
                THEN join(SubSeq(parts_filename, 1, p_f_len - 1), <<".">>)
                ELSE split(Config_get(receipts, "path_src", "path_src"), <<".">>)[1],
       ext  |-> parts_filename[p_f_len] ]

(* the output path parts of the first data item *)
OutputFile_new_path(data, receipts) ==
  LET parts_all  == split(data[1], <<"/">>)
      path_dir   == Config_get(receipts, "dest", "path_dir")
      parts_plc  == IF DEFAULTS.plc_path_dir = parts_all[1]
                    THEN [parts_all EXCEPT ![1] = path_dir]
                    ELSE parts_all
      parts_path == SubSeq(parts_plc, 1, Len(parts_plc) - 1)
      parts_filename == split(parts_plc[Len(parts_plc)], <<".">>)
      p_f_len    == Len(parts_filename)
  IN [ dir  |-> IF parts_path # <<>> THEN join(parts_path, <<"/">>) ELSE path_dir,
       stem |-> IF p_f_len > 1
                THEN join(SubSeq(parts_filename, 1, p_f_len - 1), <<".">>)
                ELSE split(Config_get(receipts, "path_src", "path_src"), <<".">>)[1],
       ext  |-> parts_filename[p_f_len] ]

plc_head == split(DEFAULTS.plc_path_all, <<"{","}">>)[1]

plc_tail == split(DEFAULTS.plc_path_all, <<"{","}">>)[2]

plc_full == plc_head \o plc_tail

(* the closure mapped over the data items after the first: the placeholder  *)
(* of one item as (number, text), (-1, "") for none; ok is FALSE where the  *)
(* closure panics (unwrap of a failed parse, arithmetic overflow)           *)
plc_of_item(item) ==
  IF contains(item, plc_full) THEN [ok |-> TRUE, i |-> 0, s |-> plc_full]
  ELSE
    LET head_i == IF find(item, plc_head) # -1 THEN as_i8(find(item, plc_head)) ELSE -1
        tail_i == IF find(item, plc_tail) # -1 THEN as_i8(find(item, plc_tail)) ELSE -1
    IN IF -1 # head_i /\ -1 # tail_i /\ head_i < tail_i
       THEN IF head_i < 0 \/ tail_i - head_i + 1 > 127
            THEN [ok |-> FALSE, i |-> -1, s |-> <<>>]
            ELSE LET s == SubSeq(item, head_i + 1, tail_i + 1)
                     t == SubSeq(s, Len(plc_head) + 1,
                                 Len(plc_head) + (Len(s) - Len(plc_full)))
                     p == parse_i8(t)
                 IN IF p.ok THEN [ok |-> TRUE, i |-> p.val, s |-> s]
                    ELSE [ok |-> FALSE, i |-> -1, s |-> <<>>]
       ELSE [ok |-> TRUE, i |-> -1, s |-> <<>>]

(* .filter(|item| -1 != item.0) over the mapped items *)
RECURSIVE plcs_of(_)
plcs_of(items) ==
  IF items = <<>> THEN <<>>
  ELSE LET p == plc_of_item(Head(items)) IN
       IF p.i = -1 THEN plcs_of(Tail(items))
       ELSE <<[i |-> p.i, s |-> p.s]>> \o plcs_of(Tail(items))

(* OutputFile_new_code without the path appended to the direct arguments *)
OutputFile_new_code_no_path(data, path) ==
  LET plcs == plcs_of(Tail(data))
      has_placeholder == plcs # <<>>
  IN [ kind |-> "Code",
       prog |-> IF has_placeholder THEN DEFAULTS.cmd_prog ELSE data[2],
       args |-> IF has_placeholder
                THEN <<DEFAULTS.cmd_flag, join(Tail(data), <<" ">>)>>
                ELSE SubSeq(data, 3, Len(data)),
       plcs |-> plcs ]

(* the init part once the run is not precluded: prog, args and plcs *)
OutputFile_new_code(data, path) ==
  LET plcs == plcs_of(Tail(data))
      has_placeholder == plcs # <<>>
  IN [ kind |-> "Code",
       prog |-> IF has_placeholder THEN DEFAULTS.cmd_prog ELSE data[2],
       args |-> IF has_placeholder
                THEN <<DEFAULTS.cmd_flag, join(Tail(data), <<" ">>)>>
                ELSE SubSeq(data, 3, Len(data)) \o <<OutputFilePath_get(path)>>,
       plcs |-> plcs ]

(* OutputFile_new without the check of the stop signal before the command *)
OutputFile_new_no_stop(data, code, n, receipts) ==
  LET path == OutputFile_new_path(data, receipts) IN
  IF Len(data) = 1
  THEN [ kind |-> "File", data |-> data, code |-> code, path |-> path, n |-> n,
         init |-> OutputText_Stderr(<<"Not running file no. ">> \o to_string(n)
                                      \o <<" (no values)">>) ]
  ELSE IF \E k \in 2..Len(data) : ~plc_of_item(data[k]).ok
  THEN Panic
  ELSE [ kind |-> "File", data |-> data, code |-> code, path |-> path, n |-> n,
         init |-> OutputFile_new_code(data, path) ]

(* OutputFile_new with the placeholders scanned before the run is found    *)
(* to be precluded                                                         *)
OutputFile_new_scan_first(data, code, n, receipts) ==
  LET path == OutputFile_new_path(data, receipts) IN
  IF \E k \in 2..Len(data) : ~plc_of_item(data[k]).ok
  THEN Panic
  ELSE IF Len(data) = 1
  THEN [ kind |-> "File", data |-> data, code |-> code, path |-> path, n |-> n,
         init |-> OutputText_Stderr(<<"Not running file no. ">> \o to_string(n)
                                      \o <<" (no values)">>) ]
  ELSE IF data[2] = DEFAULTS.sig_stop
  THEN [ kind |-> "File", data |-> data, code |-> code, path |-> path, n |-> n,
         init |-> OutputText_Stderr(<<"Not running file no. ">> \o to_string(n)
                                      \o <<" (">> \o DEFAULTS.sig_stop \o <<" applied)">>) ]
  ELSE [ kind |-> "File", data |-> data, code |-> code, path |-> path, n |-> n,
         init |-> OutputFile_new_code(data, path) ]

(* OutputFile::new; data is not empty *)
OutputFile_new(data, code, n, receipts) ==
  LET path == OutputFile_new_path(data, receipts) IN
  IF Len(data) = 1
  THEN [ kind |-> "File", data |-> data, code |-> code, path |-> path, n |-> n,
         init |-> OutputText_Stderr(<<"Not running file no. ">> \o to_string(n)
                                      \o <<" (no values)">>) ]
  ELSE IF data[2] = DEFAULTS.sig_stop
  THEN [ kind |-> "File", data |-> data, code |-> code, path |-> path, n |-> n,
         init |-> OutputText_Stderr(<<"Not running file no. ">> \o to_string(n)
                                      \o <<" (">> \o DEFAULTS.sig_stop \o <<" applied)">>) ]
  ELSE IF \E k \in 2..Len(data) : ~plc_of_item(data[k]).ok
  THEN Panic
  ELSE [ kind |-> "File", data |-> data, code |-> code, path |-> path, n |-> n,
         init |-> OutputFile_new_code(data, path) ]

(* ---------------------------------------------------------------------- *)
(* MAIN / source processing                                                *)
(* ---------------------------------------------------------------------- *)

(* line_sections with the line cut at the last tail marker *)
line_sections_last_tail(line) ==
  LET marks == {i \in 1..Len(line) : SubSeq(line, i, i + Len(DEFAULTS.tag_tail) - 1) = DEFAULTS.tag_tail} IN
  IF marks # {}
  THEN LET i == CHOOSE x \in marks : \A y \in marks : y <= x IN
       <<SubSeq(line, 1, i), SubSeq(line, i + 1, Len(line))>>
  ELSE <<<<>>, line>>

(* label and data of a tag line *)
line_sections(line) ==
  LET i == find(line, DEFAULTS.tag_tail) IN
  IF i # -1 THEN <<SubSeq(line, 1, i + 1), SubSeq(line, i + 2, Len(line))>>
  ELSE <<<<>>, line>>

line_label(line) == split(line_sections(line)[1], DEFAULTS.tag_tail)[1]

line_data(line) == trim(line_sections(line)[2])

(* the items of the tag line data *)
data_items(line) == filter_nonempty(split(line_data(line), <<" ">>))

(* inputs_parse with the list option handled after the data checks *)
inputs_parse_list_late(script, receipts) ==
  LET data == data_items(script.line) IN
  IF data = <<>>
  THEN OutputText_Stderr(<<"No tag data found for script no. ">> \o to_string(script.n))
  ELSE IF data[1] = DEFAULTS.sig_stop
  THEN OutputText_Stderr(<<"Bypassing script no. ">> \o to_string(script.n)
                           \o <<" (">> \o DEFAULTS.sig_stop \o <<" applied)">>)
  ELSE IF "list" \in DOMAIN receipts
  THEN OutputText_Stdout(
         to_string(script.n) \o <<":">>
         \o (IF line_label(script.line) # <<>>
             THEN line_label(script.line) \o <<":">> ELSE <<>>)
         \o <<" ">> \o line_data(script.line))
  ELSE OutputFile_new(data, script.body, script.n, receipts)

(* inputs_parse with the bypass reported on stdout *)
inputs_parse_bypass_stdout(script, receipts) ==
  LET data == data_items(script.line) IN
  IF "list" \in DOMAIN receipts
  THEN OutputText_Stdout(
         to_string(script.n) \o <<":">>
         \o (IF line_label(script.line) # <<>>
             THEN line_label(script.line) \o <<":">> ELSE <<>>)
         \o <<" ">> \o line_data(script.line))
  ELSE IF data = <<>>
  THEN OutputText_Stderr(<<"No tag data found for script no. ">> \o to_string(script.n))
  ELSE IF data[1] = DEFAULTS.sig_stop
  THEN OutputText_Stdout(<<"Bypassing script no. ">> \o to_string(script.n)
                           \o <<" (">> \o DEFAULTS.sig_stop \o <<" applied)">>)
  ELSE OutputFile_new(data, script.body, script.n, receipts)

(* inputs_parse *)
inputs_parse(script, receipts) ==
  LET data == data_items(script.line) IN
  IF "list" \in DOMAIN receipts
  THEN OutputText_Stdout(
         to_string(script.n) \o <<":">>
         \o (IF line_label(script.line) # <<>>
             THEN line_label(script.line) \o <<":">> ELSE <<>>)
         \o <<" ">> \o line_data(script.line))
  ELSE IF data = <<>>
  THEN OutputText_Stderr(<<"No tag data found for script no. ">> \o to_string(script.n))
  ELSE IF data[1] = DEFAULTS.sig_stop
  THEN OutputText_Stderr(<<"Bypassing script no. ">> \o to_string(script.n)
                           \o <<" (">> \o DEFAULTS.sig_stop \o <<" applied)">>)
  ELSE OutputFile_new(data, script.body, script.n, receipts)

(* the filter of outputs_get: the script is in the subset, or there is none *)
only_allows(script, receipts) ==
  \/ "only" \notin DOMAIN receipts
  \/ /\ receipts["only"].kind = "Ints"
     /\ \E k \in 1..Len(receipts["only"].ints) : receipts["only"].ints[k] = script.n

(* context_fold over the file outputs with a command only *)
RECURSIVE context_fold_code_only(_, _)
context_fold_code_only(acc, outs) ==
  IF outs = <<>> THEN acc
  ELSE LET o == Head(outs) IN
       context_fold_code_only(
         IF o.kind = "File" /\ o.init.kind = "Code"
         THEN [k \in (DOMAIN acc) \cup {o.n} |->
                 IF k = o.n THEN OutputFilePath_get(o.path) ELSE acc[k]]
         ELSE acc,
         Tail(outs))

(* context_get: the fold that inserts the path of each file output at its number *)
RECURSIVE context_fold(_, _)
context_fold(acc, outs) ==
  IF outs = <<>> THEN acc
  ELSE LET o == Head(outs) IN
       context_fold(
         IF o.kind = "File"
         THEN [k \in (DOMAIN acc) \cup {o.n} |->
                 IF k = o.n THEN OutputFilePath_get(o.path) ELSE acc[k]]
         ELSE acc,
         Tail(outs))

(* context_get over all outputs but the last *)
context_get_short(outs) ==
  context_fold(<<>>, SubSeq(outs, 1, Len(outs) - 1))

context_get(outs) == context_fold(<<>>, outs)

(* exec_cmd where a placeholder without a context entry is left as it is *)
RECURSIVE exec_cmd_lenient(_, _, _, _)
exec_cmd_lenient(cmd, plcs, n, ctx) ==
  IF plcs = <<>> THEN [ok |-> TRUE, cmd |-> cmd]
  ELSE LET plc == Head(plcs)
           key == IF plc.i = 0 THEN n ELSE plc.i
       IN IF key \notin DOMAIN ctx
          THEN exec_cmd_lenient(cmd, Tail(plcs), n, ctx)
          ELSE exec_cmd_lenient(replace(cmd, plc.s, ctx[key]), Tail(plcs), n, ctx)

(* exec_cmd where every placeholder is replaced by the script's own path  *)
RECURSIVE exec_cmd_own_path(_, _, _, _)
exec_cmd_own_path(cmd, plcs, n, ctx) ==
  IF plcs = <<>> THEN [ok |-> TRUE, cmd |-> cmd]
  ELSE LET plc == Head(plcs)
           key == IF plc.i = 0 THEN n ELSE plc.i
       IN IF key \notin DOMAIN ctx
          THEN [ok |-> FALSE, cmd |-> cmd]
          ELSE exec_cmd_own_path(replace(cmd, plc.s, ctx[n]), Tail(plcs), n, ctx)

(* the substituted command of exec: each placeholder text is replaced by   *)
(* the context path of its number (the script's own for 0); ok is FALSE    *)
(* where context.get(..).unwrap() panics.  A negative number cast to usize *)
(* is above every script number, so it is never a key.                     *)
RECURSIVE exec_cmd(_, _, _, _)
exec_cmd(cmd, plcs, n, ctx) ==
  IF plcs = <<>> THEN [ok |-> TRUE, cmd |-> cmd]
  ELSE LET plc == Head(plcs)
           key == IF plc.i = 0 THEN n ELSE plc.i
       IN IF key \notin DOMAIN ctx
          THEN [ok |-> FALSE, cmd |-> cmd]
          ELSE exec_cmd(replace(cmd, plc.s, ctx[key]), Tail(plcs), n, ctx)

(* args_full of exec *)
exec_args_full(c, n, ctx) ==
  IF c.plcs = <<>> THEN [ok |-> TRUE, args |-> c.args]
  ELSE LET r == exec_cmd(c.args[2], c.plcs, n, ctx) IN
       [ok |-> r.ok, args |-> <<c.args[1], r.cmd>>]

(* ---------------------------------------------------------------------- *)
(* inputs                                                                  *)
(* ---------------------------------------------------------------------- *)

Line_full    == <<" ","e","x","t"," ","p","r","o","g","r","a","m"," ","-","-","f","l","a","g"," ","v","a","l","u","e">>
Line_absent  == <<>>
Line_bypass  == <<" ","!"," ","e","x","t"," ","p","r","o","g","r","a","m">>
Line_minus   == <<" ","e","x","t">>
Line_norun   == <<" ","e","x","t"," ","!"," ","p","r","o","g","r","a","m"," ",">","<">>
Line_self    == <<" ","e","x","t"," ","c","a","t"," ",">","<"," ","|"," ","w","c">>
Line_ref1    == <<" ","s","h"," ","c","a","t"," ",">","1","<">>
Line_ref2    == <<" ","p","y"," ","c","a","t"," ",">","2","<">>
Line_ref9    == <<" ","r","b"," ","c","a","t"," ",">","9","<">>
Line_badplc  == <<" ","e","x","t"," ","c","a","t",">","o","u","t","<","i","n">>
Line_tailfirst == <<" ","e","x","t"," ","s","o","r","t"," ","<",">","1","<">>
Line_label   == <<" ","l","a","b","e","l"," ","#"," ","e","x","t"," ","p","r","o","g","r","a","m"," ","-","-","f","l","a","g"," ","v","a","l","u","e">>
Line_multi   == <<" ","s","c","r","i","p","t",".","s","u","f","f","i","x","1",".","s","u","f","f","i","x","2",".","e","x","t"," ","p","r","o","g","r","a","m">>
Line_dir     == <<" ","d","i","r","/","s","c","r","i","p","t",".","e","x","t"," ","p","r","o","g","r","a","m"," ","-","-","f","l","a","g">>
Line_plcdir  == <<" ",">","/","s","c","r","i","p","t",".","e","x","t"," ","p","r","o","g","r","a","m">>
Line_plcsub  == <<" ",">","/","s","u","b","/","s","c","r","i","p","t",".","e","x","t"," ","p","r","o","g","r","a","m">>
Line_deep    == <<" ","a","/","b","/","s","c","r","i","p","t",".","e","x","t"," ","p","r","o","g","r","a","m">>
Line_plconly == <<" ",">"," ","p","r","o","g","r","a","m">>
Line_stopbad == <<" ","e","x","t"," ","!"," ","c","a","t",">","o","u","t","<","i","n">>
Line_pair    == <<" ","s","h"," ","c","a","t"," ",">","1","<",",",">","2","<">>
Line_ref127  == <<" ","e","x","t"," ","c","a","t"," ",">","1","2","7","<">>
Line_ref128  == <<" ","e","x","t"," ","c","a","t"," ",">","1","2","8","<">>
Line_tab     == <<" ","e","x","t","\t","p","r","o","g","r","a","m"," ","-","-","f","l","a","g">>
Line_hash2   == <<" ","l"," ","#"," ","e","x","t"," ","s","e","d"," ","s","/","#","/","x","/">>
Line_hashcmd == <<" ","e","x","t"," ","g","r","e","p"," ","#">>
Line_nolabel == <<"#"," ","e","x","t"," ","p","r","o","g","r","a","m">>

(* the tag lines of the documents that are run *)
RunLines ==
  { Line_full, Line_absent, Line_bypass, Line_minus, Line_norun, Line_self,
    Line_ref1, Line_ref2, Line_ref9, Line_badplc, Line_label }

(* the tag lines of the one-script documents that are resolved *)
AllLines ==
  RunLines \cup { Line_tailfirst, Line_multi, Line_dir, Line_plcdir, Line_plcsub,
                  Line_deep, Line_plconly, Line_stopbad, Line_pair,
                  Line_tab, Line_hash2, Line_hashcmd, Line_nolabel,
                  Line_ref127, Line_ref128 }

(* the body of script n *)
BodyOf(n) == <<"/","/","c","o","d","e">> \o to_string(n)

(* Script::new over the sections of the source after the preface *)
ScriptsOf(lines) ==
  [n \in 1..Len(lines) |-> [n |-> n, line |-> lines[n], body |-> BodyOf(n)]]

Receipt_Bool == [kind |-> "Bool", ints |-> <<>>, strs |-> <<>>]

Receipt_Ints(ns) == [kind |-> "Ints", ints |-> ns, strs |-> <<>>]

Receipt_Strs(ss) == [kind |-> "Strs", ints |-> <<>>, strs |-> ss]

(* the receipts of a run: list or not, with or without a subset *)
RunReceipts ==
  { <<>>,
    [k \in {"list"} |-> Receipt_Bool],
    [k \in {"only"} |-> Receipt_Ints(<<1>>)],
    [k \in {"only"} |-> Receipt_Ints(<<2, 3>>)],
    [k \in {"list", "only"} |->
       IF k = "list" THEN Receipt_Bool ELSE Receipt_Ints(<<2, 3>>)] }

(* source paths given as the remaining argument: 'notes.v2.txt' and       *)
(* 'docs/src.txt'                                                          *)
Src_two_dots == <<"n","o","t","e","s",".","v","2",".","t","x","t">>

Src_in_dir == <<"d","o","c","s","/","s","r","c",".","t","x","t">>

(* the receipts of a resolved one-script document: list, dest, source path *)
ResolveReceipts ==
  { <<>>,
    [k \in {"list"} |-> Receipt_Bool],
    [k \in {"dest"} |-> Receipt_Strs(<< <<"o","u","t">> >>)],
    [k \in {"path_src"} |-> Receipt_Strs(<< Src_two_dots >>)],
    [k \in {"path_src"} |-> Receipt_Strs(<< Src_in_dir >>)] }

(* ---------------------------------------------------------------------- *)
(* the source: its text, its sections, its tag lines                       *)
(* ---------------------------------------------------------------------- *)

(* a line without the "\r" that ends it *)
strip_cr(l) ==
  IF l # <<>> /\ l[Len(l)] = "\r" THEN SubSeq(l, 1, Len(l) - 1) ELSE l

(* the parts without a last empty part *)
drop_last_empty(parts) ==
  IF parts[Len(parts)] = <<>> THEN SubSeq(parts, 1, Len(parts) - 1) ELSE parts

map_strip_cr(ls) == [i \in 1..Len(ls) |-> strip_cr(ls[i])]

(* str::lines: split on "\n", without a last empty line and without the    *)
(* "\r" that ends a line                                                   *)
str_lines(s) == map_strip_cr(drop_last_empty(split(s, <<"\n">>)))

(* str::split_whitespace: the maximal runs without whitespace *)
RECURSIVE split_whitespace(_)
split_whitespace(s) ==
  IF s = <<>> THEN <<>>
  ELSE IF is_whitespace(Head(s)) THEN split_whitespace(Tail(s))
  ELSE LET ws == {i \in 1..Len(s) : is_whitespace(s[i])}
           n  == IF ws = {} THEN Len(s) + 1 ELSE CHOOSE i \in ws : \A j \in ws : i <= j
       IN <<SubSeq(s, 1, n - 1)>> \o split_whitespace(SubSeq(s, n, Len(s)))

(* str::trim_end_matches on a one-character pattern *)
RECURSIVE trim_end_matches(_, _)
trim_end_matches(s, c) ==
  IF s # <<>> /\ s[Len(s)] = c
  THEN trim_end_matches(SubSeq(s, 1, Len(s) - 1), c)
  ELSE s

(* str::parse::<usize>: an optional '+', then one or more digits *)
parse_usize(s) ==
  LET body  == IF s # <<>> /\ s[1] = "+" THEN Tail(s) ELSE s
      wellf == body # <<>> /\ \A k \in 1..Len(body) : IsDigit(body[k])
  IN IF wellf THEN [ok |-> TRUE, val |-> digits_val(body)]
     ELSE [ok |-> FALSE, val |-> 0]

(* the texts of the messages 'file' and 'line', each kept as one chunk, and *)
(* the placeholders source_get puts in their place                          *)
doc_line_file == <<"The default source path is 'src.txt'. Each script in the file is preceded by a tag line begun with the tag head ('###') and an optional label and tail ('#'):">>

doc_line_line == <<"###[ label #] <OUTPUT EXTENSION / PATH: [[[.../]dirname/]stem.]ext> <COMMAND>">>

plc_doc_line_file == <<"p","l","c","_","d","o","c","_","l","i","n","e","_","f","i","l","e">>

plc_doc_line_line == <<"p","l","c","_","d","o","c","_","l","i","n","e","_","l","i","n","e">>

(* tag_head_add with the tag head put before every line *)
tag_head_add_always(line) ==
  DEFAULTS.tag_head \o <<" ">> \o trim(line)

(* tag_head_add *)
tag_head_add(line) ==
  IF Len(line) >= 3 /\ SubSeq(line, 1, 3) = DEFAULTS.tag_head
  THEN line
  ELSE DEFAULTS.tag_head \o <<" ">> \o trim(line)

(* Script::new on the lines of the section: the unwrap of the first line   *)
(* panics where there is none                                              *)
Script_of_lines(n, ls) ==
  IF ls = <<>> THEN [kind |-> "Panic", n |-> n, line |-> <<>>, body |-> <<>>]
  ELSE [kind |-> "Script", n |-> n, line |-> ls[1], body |-> join(Tail(ls), <<"\n">>)]

(* Script::new with the tag line kept in the body *)
Script_new_line_in_body(n, text) ==
  Script_of_lines(n, <<str_lines(text)[1]>> \o str_lines(text))

(* Script::new *)
Script_new(n, text) == Script_of_lines(n, str_lines(text))

(* the two maps of source_get over the lines: the message lines are set to *)
(* placeholders                                                            *)
doc_line_mark(l) ==
  IF l = doc_line_file THEN plc_doc_line_file
  ELSE IF l = doc_line_line THEN plc_doc_line_line
  ELSE l

mark_lines(ls) == [i \in 1..Len(ls) |-> doc_line_mark(ls[i])]

(* part.splitn(2, '\n').last(): the text after the first newline at the    *)
(* 0-based index nl, the whole part where there is none                    *)
splitn_last(part, nl) ==
  IF nl = -1 THEN part ELSE SubSeq(part, nl + 2, Len(part))

(* the first part without its shebang line *)
shebang_removed(parts) ==
  IF Len(parts[1]) >= 2 /\ SubSeq(parts[1], 1, 2) = <<"#","!">>
  THEN [parts EXCEPT ![1] = splitn_last(parts[1], find(parts[1], <<"\n">>))]
  ELSE parts

(* the sections of source_get: the text split on the tag head, after the  *)
(* message lines are set to placeholders, without a shebang line          *)
source_sections(text) ==
  shebang_removed(split(join(mark_lines(str_lines(text)), <<"\n">>), DEFAULTS.tag_head))

(* the scripts of the sections after the first *)
sections_scripts(sections) ==
  [i \in 1..(Len(sections) - 1) |-> Script_new(i, sections[i + 1])]

(* the Source of the sections and their scripts, or the panic of a script *)
Source_of(sections, scs) ==
  IF \E i \in 1..Len(scs) : scs[i].kind = "Panic"
  THEN [kind |-> "Panic", preface |-> <<>>, scripts |-> <<>>]
  ELSE [ kind    |-> "Source",
         preface |-> replace(replace(sections[1], plc_doc_line_file, doc_line_file),
                             plc_doc_line_line, doc_line_line),
         scripts |-> [i \in 1..Len(scs) |->
                        [n |-> scs[i].n, line |-> scs[i].line, body |-> scs[i].body]] ]

source_of_sections(sections) == Source_of(sections, sections_scripts(sections))

(* source_get on the text read: the preface and the scripts, or a panic *)
source_get_of(text) == source_of_sections(source_sections(text))

(* ---------------------------------------------------------------------- *)
(* the settings and Config::receive                                        *)
(* ---------------------------------------------------------------------- *)

(* the numbers a..b *)
range_incl(a, b) == [i \in 1..(IF b + 1 > a THEN b + 1 - a ELSE 0) |-> a + i - 1]

(* the numbers a..b-1 *)
range_excl(a, b) == [i \in 1..(IF b > a THEN b - a ELSE 0) |-> a + i - 1]

(* the closure of setting_only_apply on one item of SUBSET: ok is FALSE     *)
(* where a parse fails (expect)                                             *)
only_vals(val_str, incl) ==
  LET parts == split(trim(val_str), <<"-">>)
      vals  == [i \in 1..Len(parts) |-> parse_usize(parts[i])]
  IN IF \E i \in 1..Len(vals) : ~vals[i].ok THEN [ok |-> FALSE, vals |-> <<>>]
     ELSE IF Len(vals) > 1
          THEN [ok |-> TRUE, vals |-> IF incl THEN range_incl(vals[1].val, vals[2].val)
                                      ELSE range_excl(vals[1].val, vals[2].val)]
     ELSE [ok |-> TRUE, vals |-> <<vals[1].val>>]

(* the flat_map of setting_only_apply over the items *)
RECURSIVE only_flat_map(_, _)
only_flat_map(items, incl) ==
  IF items = <<>> THEN [ok |-> TRUE, vals |-> <<>>]
  ELSE LET v    == only_vals(Head(items), incl)
           rest == only_flat_map(Tail(items), incl)
       IN [ok |-> v.ok /\ rest.ok, vals |-> v.vals \o rest.vals]

(* setting_only_apply with the ranges without their upper end *)
setting_only_apply_exclusive(strs) ==
  only_flat_map(split(trim(strs[1]), <<",">>), FALSE)

(* setting_only_apply: the numbers of SUBSET; ok is FALSE for a panic *)
setting_only_apply(strs) ==
  only_flat_map(split(trim(strs[1]), <<",">>), TRUE)

(* settings_new, without the settings 'init', 'version' and 'help', which  *)
(* no argument drawn names                                                 *)
Settings ==
  << [key |-> "list", word |-> <<"l","i","s","t">>, char |-> <<"l">>, strs_len |-> 0],
     [key |-> "only", word |-> <<"o","n","l","y">>, char |-> <<"o">>, strs_len |-> 1],
     [key |-> "dest", word |-> <<"d","e","s","t">>, char |-> <<"d">>, strs_len |-> 1],
     [key |-> "push", word |-> <<"p","u","s","h">>, char |-> <<"p">>, strs_len |-> 2],
     [key |-> "edit", word |-> <<"e","d","i","t">>, char |-> <<"e">>, strs_len |-> 2] >>

(* the setting calls queued by Config::receive, setting by setting and     *)
(* argument by argument; ok is FALSE where the values run past the end     *)
RECURSIVE settings_queued(_, _, _)
settings_queued(as, si, j) ==
  IF si > Len(Settings) THEN <<>>
  ELSE IF j > Len(as) THEN settings_queued(as, si + 1, 1)
  ELSE IF \/ as[j] = <<"-","-">> \o Settings[si].word
          \/ as[j] = <<"-">> \o Settings[si].char
       THEN << [ key  |-> Settings[si].key,
                 ok   |-> j + Settings[si].strs_len <= Len(as),
                 strs |-> IF j + Settings[si].strs_len <= Len(as)
                          THEN SubSeq(as, j + 1, j + Settings[si].strs_len)
                          ELSE <<>> ] >>
            \o settings_queued(as, si, j + 1)
  ELSE settings_queued(as, si, j + 1)

RECURSIVE settings_count(_)
settings_count(queued) ==
  IF queued = <<>> THEN 0
  ELSE 1 + Len(Head(queued).strs) + settings_count(Tail(queued))

(* HashMap::insert *)
receipts_insert(rs, key, val) ==
  [k \in DOMAIN rs \cup {key} |-> IF k = key THEN val ELSE rs[k]]

(* the queued calls made in order: the receipts, a panic, or the push that *)
(* ends the process                                                        *)
RECURSIVE settings_call(_, _)
settings_call(rs, queued) ==
  IF queued = <<>> THEN [kind |-> "ok", receipts |-> rs, strs |-> <<>>]
  ELSE LET q == Head(queued) IN
       IF q.key = "push" THEN [kind |-> "push", receipts |-> rs, strs |-> q.strs]
       ELSE IF q.key = "only"
       THEN LET v == setting_only_apply(q.strs) IN
            IF ~v.ok THEN [kind |-> "panic", receipts |-> rs, strs |-> <<>>]
            ELSE settings_call(receipts_insert(rs, "only", Receipt_Ints(v.vals)), Tail(queued))
       ELSE IF q.key = "list"
       THEN settings_call(receipts_insert(rs, "list", Receipt_Bool), Tail(queued))
       ELSE settings_call(receipts_insert(rs, q.key, Receipt_Strs(q.strs)), Tail(queued))

(* Config::receive; cli tells args_remaining_cli_apply from                 *)
(* args_remaining_src_apply                                                 *)
Config_receive(rs, as, cli) ==
  LET queued    == settings_queued(as, 1, 1)
      count     == settings_count(queued)
      remaining == SubSeq(as, count + 1, Len(as))
      extended  == IF cli /\ remaining # <<>>
                   THEN receipts_insert(rs, "path_src", Receipt_Strs(<<remaining[1]>>))
                   ELSE rs
  IN IF (\E i \in 1..Len(queued) : ~queued[i].ok) \/ count > Len(as)
     THEN [kind |-> "panic", receipts |-> rs, strs |-> <<>>]
     ELSE settings_call(extended, queued)

(* ---------------------------------------------------------------------- *)
(* the run of main, from outputs_get on                                    *)
(* ---------------------------------------------------------------------- *)

VARIABLES
  scripts,   (* Source.scripts *)
  receipts,  (* Config.receipts *)
  pc,        (* the position of main *)
  ri,        (* outputs_get: the next script, 1-based *)
  outputs,   (* the outputs collected so far *)
  context,   (* the number -> path map *)
  ai,        (* the for_each of main: the next output, 1-based *)
  trace,     (* the file system and process events, in order *)
  stdout,    (* the texts printed to stdout *)
  stderr,    (* the texts printed to stderr *)
  alive,     (* the numbers of the scripts whose child process is alive *)
  args,      (* the arguments passed on the command line *)
  file,      (* the content of the source file *)
  preface,   (* Source.preface *)
  stdin,     (* standard input: the data piped, the bytes read, whether it ends *)
  reader,    (* the reader thread: its position and its buffer *)
  chan,      (* the channel from the reader thread to main *)
  recvd,     (* the string built by main from the buffers received *)
  paths      (* the paths received that are still to be pushed *)

(* the state of main before outputs_get *)
pre_vars == <<args, file, preface, stdin, reader, chan, recvd, paths>>

vars == <<scripts, receipts, pc, ri, outputs, context, ai, trace, stdout, stderr, alive,
          args, file, preface, stdin, reader, chan, recvd, paths>>

(* nothing on the command line or on standard input, which stays open: the *)
(* reader thread is blocked in its read                                    *)
InitPre ==
  /\ args = <<>>
  /\ file = <<>>
  /\ preface = <<>>
  /\ stdin = [data |-> <<>>, pos |-> 0, eof |-> FALSE]
  /\ reader = [pc |-> "read", bfr |-> <<>>]
  /\ chan = <<>>
  /\ recvd = <<>>
  /\ paths = <<>>

InitRun ==
  /\ InitPre
  /\ pc = "outputs_get"
  /\ ri = 1
  /\ outputs = <<>>
  /\ context = <<>>
  /\ ai = 1
  /\ trace = <<>>
  /\ stdout = <<>>
  /\ stderr = <<>>
  /\ alive = {}

Init ==
  /\ \E len \in 1..MaxScripts : \E lines \in [1..len -> RunLines] :
       scripts = ScriptsOf(lines)
  /\ receipts \in RunReceipts
  /\ InitRun

(* one script of outputs_get: filtered out, or parsed to an output; a panic *)
(* of the parse ends the process                                            *)
outputs_get ==
  /\ pc = "outputs_get"
  /\ ri <= Len(scripts)
  /\ IF ~only_allows(scripts[ri], receipts)
     THEN /\ ri' = ri + 1
          /\ UNCHANGED <<pc, outputs>>
     ELSE LET o == inputs_parse(scripts[ri], receipts) IN
          IF o = Panic
          THEN /\ pc' = "fatal"
               /\ UNCHANGED <<ri, outputs>>
          ELSE /\ outputs' = Append(outputs, o)
               /\ ri' = ri + 1
               /\ pc' = pc
  /\ UNCHANGED <<pre_vars, scripts, receipts, context, ai, trace, stdout, stderr, alive>>

(* the directory and write events of every file output, in order *)
RECURSIVE save_all_events(_)
save_all_events(outs) ==
  IF outs = <<>> THEN <<>>
  ELSE (IF Head(outs).kind = "File"
        THEN << [ev |-> "create_dir", n |-> Head(outs).n, dir |-> Head(outs).path.dir],
                [ev |-> "write", n |-> Head(outs).n,
                 path |-> OutputFilePath_get(Head(outs).path), code |-> Head(outs).code] >>
        ELSE <<>>)
       \o save_all_events(Tail(outs))

(* main_context_get where every file is saved as the context is built *)
main_context_get_save_all ==
  /\ pc = "outputs_get"
  /\ ri > Len(scripts)
  /\ context' = context_get(outputs)
  /\ trace' = trace \o save_all_events(outputs)
  /\ pc' = "apply"
  /\ UNCHANGED <<pre_vars, scripts, receipts, ri, outputs, ai, stdout, stderr, alive>>

(* main: the context is taken from the collected outputs *)
main_context_get ==
  /\ pc = "outputs_get"
  /\ ri > Len(scripts)
  /\ context' = context_get(outputs)
  /\ pc' = "apply"
  /\ UNCHANGED <<pre_vars, scripts, receipts, ri, outputs, ai, trace, stdout, stderr, alive>>

(* Output_apply_text where a text for stderr ends the process *)
Output_apply_text_abort ==
  /\ pc = "apply"
  /\ ai <= Len(outputs)
  /\ outputs[ai].kind = "Text"
  /\ IF outputs[ai].stream = "Stdout"
     THEN /\ stdout' = Append(stdout, outputs[ai].text)
          /\ ai' = ai + 1
          /\ UNCHANGED <<stderr, pc>>
     ELSE /\ stderr' = Append(stderr, outputs[ai].text)
          /\ pc' = "fatal"
          /\ UNCHANGED <<stdout, ai>>
  /\ UNCHANGED <<pre_vars, scripts, receipts, ri, outputs, context, trace, alive>>

(* Output::apply of a text output *)
Output_apply_text ==
  /\ pc = "apply"
  /\ ai <= Len(outputs)
  /\ outputs[ai].kind = "Text"
  /\ IF outputs[ai].stream = "Stdout"
     THEN stdout' = Append(stdout, outputs[ai].text) /\ UNCHANGED stderr
     ELSE stderr' = Append(stderr, outputs[ai].text) /\ UNCHANGED stdout
  /\ ai' = ai + 1
  /\ UNCHANGED <<pre_vars, scripts, receipts, pc, ri, outputs, context, trace, alive>>

(* OutputFile_save_dir where a failure leaves the script out and the run   *)
(* goes on with the next output                                            *)
OutputFile_save_dir_skip ==
  /\ pc = "apply"
  /\ ai <= Len(outputs)
  /\ outputs[ai].kind = "File"
  /\ \/ /\ trace' = Append(trace, [ev |-> "create_dir", n |-> outputs[ai].n,
                                   dir |-> outputs[ai].path.dir])
        /\ pc' = "save_write"
        /\ UNCHANGED ai
     \/ /\ ai' = ai + 1
        /\ UNCHANGED <<pc, trace>>
  /\ UNCHANGED <<pre_vars, scripts, receipts, ri, outputs, context, stdout, stderr, alive>>

(* OutputFile::save, first half: create_dir_all, which may fail *)
OutputFile_save_dir ==
  /\ pc = "apply"
  /\ ai <= Len(outputs)
  /\ outputs[ai].kind = "File"
  /\ \/ /\ trace' = Append(trace, [ev |-> "create_dir", n |-> outputs[ai].n,
                                   dir |-> outputs[ai].path.dir])
        /\ pc' = "save_write"
     \/ /\ pc' = "fatal"
        /\ UNCHANGED trace
  /\ UNCHANGED <<pre_vars, scripts, receipts, ri, outputs, context, ai, stdout, stderr, alive>>

(* OutputFile_save_write where a failed write is ignored *)
OutputFile_save_write_unchecked ==
  /\ pc = "save_write"
  /\ \/ /\ trace' = Append(trace, [ev |-> "write", n |-> outputs[ai].n,
                                   path |-> OutputFilePath_get(outputs[ai].path),
                                   code |-> outputs[ai].code])
        /\ pc' = "exec"
     \/ /\ pc' = "exec"
        /\ UNCHANGED trace
  /\ UNCHANGED <<pre_vars, scripts, receipts, ri, outputs, context, ai, stdout, stderr, alive>>

(* OutputFile::save, second half: fs::write, which may fail *)
OutputFile_save_write ==
  /\ pc = "save_write"
  /\ \/ /\ trace' = Append(trace, [ev |-> "write", n |-> outputs[ai].n,
                                   path |-> OutputFilePath_get(outputs[ai].path),
                                   code |-> outputs[ai].code])
        /\ pc' = "exec"
     \/ /\ pc' = "fatal"
        /\ UNCHANGED trace
  /\ UNCHANGED <<pre_vars, scripts, receipts, ri, outputs, context, ai, stdout, stderr, alive>>

(* OutputFile::exec where the run is precluded: the reason is printed *)
OutputFile_exec_text ==
  /\ pc = "exec"
  /\ outputs[ai].init.kind = "Text"
  /\ IF outputs[ai].init.stream = "Stdout"
     THEN stdout' = Append(stdout, outputs[ai].init.text) /\ UNCHANGED stderr
     ELSE stderr' = Append(stderr, outputs[ai].init.text) /\ UNCHANGED stdout
  /\ ai' = ai + 1
  /\ pc' = "apply"
  /\ UNCHANGED <<pre_vars, scripts, receipts, ri, outputs, context, trace, alive>>

(* OutputFile_exec_spawn where the child is not waited for *)
OutputFile_exec_spawn_no_wait ==
  /\ pc = "exec"
  /\ outputs[ai].init.kind = "Code"
  /\ LET full == exec_args_full(outputs[ai].init, outputs[ai].n, context) IN
     IF ~full.ok
     THEN /\ pc' = "fatal"
          /\ UNCHANGED <<trace, alive, ai>>
     ELSE \/ /\ trace' = Append(trace, [ev |-> "spawn", n |-> outputs[ai].n,
                                        prog |-> outputs[ai].init.prog,
                                        args |-> full.args])
             /\ alive' = alive \cup {outputs[ai].n}
             /\ ai' = ai + 1
             /\ pc' = "apply"
          \/ /\ pc' = "fatal"
             /\ UNCHANGED <<trace, alive, ai>>
  /\ UNCHANGED <<pre_vars, scripts, receipts, ri, outputs, context, stdout, stderr>>

(* OutputFile::exec up to spawn: the placeholders are replaced from the    *)
(* context (a missing key panics), then the child is spawned (or not)      *)
OutputFile_exec_spawn ==
  /\ pc = "exec"
  /\ outputs[ai].init.kind = "Code"
  /\ LET full == exec_args_full(outputs[ai].init, outputs[ai].n, context) IN
     IF ~full.ok
     THEN /\ pc' = "fatal"
          /\ UNCHANGED <<trace, alive>>
     ELSE \/ /\ trace' = Append(trace, [ev |-> "spawn", n |-> outputs[ai].n,
                                        prog |-> outputs[ai].init.prog,
                                        args |-> full.args])
             /\ alive' = alive \cup {outputs[ai].n}
             /\ pc' = "wait"
          \/ /\ pc' = "fatal"
             /\ UNCHANGED <<trace, alive>>
  /\ UNCHANGED <<pre_vars, scripts, receipts, ri, outputs, context, ai, stdout, stderr>>

(* OutputFile_exec_wait where a status other than 0 ends the process *)
OutputFile_exec_wait_status_checked ==
  /\ pc = "wait"
  /\ \/ \E status \in {0, 1} :
          /\ trace' = Append(trace, [ev |-> "exit", n |-> outputs[ai].n,
                                     status |-> status])
          /\ alive' = alive \ {outputs[ai].n}
          /\ IF status = 0
             THEN ai' = ai + 1 /\ pc' = "apply"
             ELSE pc' = "fatal" /\ UNCHANGED ai
     \/ /\ pc' = "fatal"
        /\ UNCHANGED <<trace, alive, ai>>
  /\ UNCHANGED <<pre_vars, scripts, receipts, ri, outputs, context, stdout, stderr>>

(* wait_with_output: the child exits with some status, or the wait fails *)
OutputFile_exec_wait ==
  /\ pc = "wait"
  /\ \/ \E status \in {0, 1} :
          /\ trace' = Append(trace, [ev |-> "exit", n |-> outputs[ai].n,
                                     status |-> status])
          /\ alive' = alive \ {outputs[ai].n}
          /\ ai' = ai + 1
          /\ pc' = "apply"
     \/ /\ pc' = "fatal"
        /\ UNCHANGED <<trace, alive, ai>>
  /\ UNCHANGED <<pre_vars, scripts, receipts, ri, outputs, context, stdout, stderr>>

(* main returns after the last output *)
main_return ==
  /\ pc = "apply"
  /\ ai > Len(outputs)
  /\ pc' = "done"
  /\ UNCHANGED <<pre_vars, scripts, receipts, ri, outputs, context, ai, trace, stdout, stderr, alive>>

(* ---------------------------------------------------------------------- *)
(* main before outputs_get: the arguments, standard input, the source, the *)
(* edit                                                                    *)
(* ---------------------------------------------------------------------- *)

(* the variables of the run that no step before outputs_get changes *)
run_vars == <<ri, outputs, context, ai, trace, alive>>

(* the length of the reader's buffer (512 in the code) *)
BufLen == 6

(* the zero byte *)
NUL == "NUL"

(* the script files on disk: 's1' and 's2' *)
ScriptFiles ==
  [p \in { <<"s","1">>, <<"s","2">> } |->
     IF p = <<"s","1">> THEN <<"x","\n">> ELSE <<"y","\n">>]

(* script_push: the tag line and the script appended to the source, or the *)
(* read error that ends the process                                        *)
script_push(strs, next) ==
  IF strs[2] \in DOMAIN ScriptFiles
  THEN /\ file' = file \o <<"\n">> \o tag_head_add(strs[1]) \o <<"\n","\n">>
                       \o ScriptFiles[strs[2]]
       /\ stdout' = Append(stdout, <<"Appended tag line '">> \o tag_head_add(strs[1])
                                     \o <<"' and content of script file '">> \o strs[2]
                                     \o <<"' to source file">>)
       /\ pc' = next
       /\ UNCHANGED stderr
  ELSE /\ stderr' = Append(stderr, <<"Not parsing script file '">> \o strs[2]
                                     \o <<"' (read error)">>)
       /\ pc' = "fatal"
       /\ UNCHANGED <<file, stdout>>

(* Config::receive on the arguments of the command line *)
main_receive_cli ==
  /\ pc = "receive"
  /\ LET r == Config_receive(receipts, args, TRUE) IN
     CASE r.kind = "panic" -> pc' = "fatal" /\ UNCHANGED <<receipts, file, stdout, stderr>>
       [] r.kind = "push"  -> script_push(r.strs, "exit") /\ UNCHANGED receipts
       [] r.kind = "ok"    -> /\ receipts' = r.receipts
                              /\ pc' = "stdin_spawn"
                              /\ UNCHANGED <<file, stdout, stderr>>
  /\ UNCHANGED <<scripts, run_vars, args, preface, stdin, reader, chan, recvd, paths>>

(* the process has not ended *)
Running == pc \notin {"done", "exit", "fatal"}

(* the receiver of the channel is in scope *)
InStdinCheck == pc \in {"stdin_poll", "stdin_paths", "stdin_push"}

(* thread::spawn of the reader, then the sleep of 5 ms *)
stdin_spawn ==
  /\ pc = "stdin_spawn"
  /\ reader' = [pc |-> "read", bfr |-> <<>>]
  /\ pc' = "stdin_poll"
  /\ UNCHANGED <<scripts, receipts, run_vars, stdout, stderr, args, file, preface,
                 stdin, chan, recvd, paths>>

(* the reader: stdin.read into the zeroed buffer, any count of the bytes   *)
(* there are; Ok(0) at the end of the input; blocked while there is none   *)
reader_read ==
  /\ Running
  /\ reader.pc = "read"
  /\ IF stdin.pos < Len(stdin.data)
     THEN \E k \in 1..(Len(stdin.data) - stdin.pos) :
            /\ k <= BufLen
            /\ reader' = [pc |-> "send",
                          bfr |-> SubSeq(stdin.data, stdin.pos + 1, stdin.pos + k)
                                  \o [i \in 1..(BufLen - k) |-> NUL]]
            /\ stdin' = [stdin EXCEPT !.pos = stdin.pos + k]
     ELSE /\ stdin.eof
          /\ reader' = [pc |-> "end", bfr |-> <<>>]
          /\ UNCHANGED stdin
  /\ UNCHANGED <<scripts, receipts, pc, run_vars, stdout, stderr, args, file, preface,
                 chan, recvd, paths>>

(* the reader: tx.send(bfr).unwrap(), a panic of the thread where the      *)
(* receiver is gone                                                        *)
reader_send ==
  /\ Running
  /\ reader.pc = "send"
  /\ IF InStdinCheck
     THEN /\ chan' = Append(chan, reader.bfr)
          /\ reader' = [pc |-> "read", bfr |-> <<>>]
          /\ UNCHANGED stderr
     ELSE /\ reader' = [pc |-> "end", bfr |-> <<>>]
          /\ stderr' = Append(stderr, <<"thread '<unnamed>' panicked">>)
          /\ UNCHANGED chan
  /\ UNCHANGED <<scripts, receipts, pc, run_vars, stdout, args, file, preface,
                 stdin, recvd, paths>>

(* stdin_try_recv with a blocking recv: main waits at an empty channel     *)
(* until the reader has ended                                              *)
stdin_try_recv_blocking ==
  /\ pc = "stdin_poll"
  /\ IF chan # <<>>
     THEN /\ recvd' = recvd \o Head(chan)
          /\ chan' = Tail(chan)
          /\ UNCHANGED pc
     ELSE /\ reader.pc = "end"
          /\ pc' = "stdin_paths"
          /\ UNCHANGED <<recvd, chan>>
  /\ UNCHANGED <<scripts, receipts, run_vars, stdout, stderr, args, file, preface,
                 stdin, reader, paths>>

(* main: the sleep of 25 us, then try_recv: a buffer is appended to recvd, *)
(* an empty channel ends the loop                                          *)
stdin_try_recv ==
  /\ pc = "stdin_poll"
  /\ IF chan # <<>>
     THEN /\ recvd' = recvd \o Head(chan)
          /\ chan' = Tail(chan)
          /\ UNCHANGED pc
     ELSE /\ pc' = "stdin_paths"
          /\ UNCHANGED <<recvd, chan>>
  /\ UNCHANGED <<scripts, receipts, run_vars, stdout, stderr, args, file, preface,
                 stdin, reader, paths>>

(* main: the paths in the string received; none is no input *)
stdin_paths ==
  /\ pc = "stdin_paths"
  /\ paths' = split_whitespace(trim_end_matches(recvd, NUL))
  /\ pc' = IF paths' = <<>> THEN "source_get" ELSE "stdin_push"
  /\ UNCHANGED <<scripts, receipts, run_vars, stdout, stderr, args, file, preface,
                 stdin, reader, chan, recvd>>

(* main: script_push for the next path under the stop signal, then exit(0) *)
stdin_push ==
  /\ pc = "stdin_push"
  /\ IF paths = <<>>
     THEN /\ pc' = "exit"
          /\ UNCHANGED <<file, stdout, stderr, paths>>
     ELSE /\ script_push(<<DEFAULTS.sig_stop, Head(paths)>>, "stdin_push")
          /\ paths' = Tail(paths)
  /\ UNCHANGED <<scripts, receipts, run_vars, args, preface, stdin, reader, chan, recvd>>

(* main takes the Source, or the process ends with the panic *)
source_got(src) ==
  IF src.kind = "Panic"
  THEN pc' = "fatal" /\ UNCHANGED <<preface, scripts>>
  ELSE /\ preface' = src.preface
       /\ scripts' = src.scripts
       /\ pc' = "receive_src"

(* source_get: the preface and the scripts of the source file; a section  *)
(* without a line is a panic of Script::new, and a failed read of the file *)
(* is reported and ends the process                                        *)
source_get ==
  /\ pc = "source_get"
  /\ \/ /\ source_got(source_get_of(file))
        /\ UNCHANGED stderr
     \/ /\ stderr' = Append(stderr, <<"Not parsing source file '">>
                                       \o Config_get(receipts, "path_src", "path_src")
                                       \o <<"' (read error)">>)
        /\ pc' = "fatal"
        /\ UNCHANGED <<preface, scripts>>
  /\ UNCHANGED <<receipts, run_vars, stdout, args, file, stdin, reader, chan,
                 recvd, paths>>

(* Config::receive on the arguments in the preface *)
main_receive_src ==
  /\ pc = "receive_src"
  /\ LET r == Config_receive(receipts, split_whitespace(preface), FALSE) IN
     CASE r.kind = "panic" -> pc' = "fatal" /\ UNCHANGED <<receipts, file, stdout, stderr>>
       [] r.kind = "push"  -> script_push(r.strs, "exit") /\ UNCHANGED receipts
       [] r.kind = "ok"    -> /\ receipts' = r.receipts
                              /\ pc' = "edit"
                              /\ UNCHANGED <<file, stdout, stderr>>
  /\ UNCHANGED <<scripts, run_vars, args, preface, stdin, reader, chan, recvd, paths>>

(* the scripts of the updated source, each as tag line, body and a newline *)
RECURSIVE source_scripts(_, _, _)
source_scripts(scs, arg_n, arg_line_tagged) ==
  IF scs = <<>> THEN <<>>
  ELSE (IF arg_n = Head(scs).n THEN arg_line_tagged ELSE tag_head_add(Head(scs).line))
       \o <<"\n">> \o Head(scs).body \o <<"\n">>
       \o source_scripts(Tail(scs), arg_n, arg_line_tagged)

(* Path::extension of the source path is Some *)
has_extension(path) ==
  LET name == split(path, <<"/">>)[Len(split(path, <<"/">>))] IN
  \E i \in 2..Len(name) : name[i] = "."

(* if_change_in_args_make_then_exit: without edit arguments main goes on;  *)
(* with them the source is written anew and the process exits; a number    *)
(* that does not parse and a source path without extension are panics      *)
if_change_in_args_make_then_exit ==
  /\ pc = "edit"
  /\ LET edit_args == IF "edit" \in DOMAIN receipts /\ receipts["edit"].kind = "Strs"
                      THEN receipts["edit"].strs ELSE <<>>
     IN IF edit_args = <<>>
        THEN pc' = "outputs_get" /\ UNCHANGED <<file, stdout>>
        ELSE LET arg_n == parse_usize(edit_args[1])
                 arg_line_tagged == tag_head_add(edit_args[2])
             IN IF ~arg_n.ok \/ ~has_extension(Config_get(receipts, "path_src", "path_src"))
                THEN pc' = "fatal" /\ UNCHANGED <<file, stdout>>
                ELSE /\ file' = preface \o source_scripts(scripts, arg_n.val, arg_line_tagged)
                     /\ stdout' = Append(stdout, <<"Updated tag line for script no. ">>
                                           \o to_string(arg_n.val) \o <<" to '">>
                                           \o arg_line_tagged \o <<"'">>)
                     /\ pc' = "exit"
  /\ UNCHANGED <<scripts, receipts, run_vars, stderr, args, preface, stdin, reader, chan,
                 recvd, paths>>

Next ==
  \/ outputs_get
  \/ main_context_get
  \/ Output_apply_text
  \/ OutputFile_save_dir
  \/ OutputFile_save_write
  \/ OutputFile_exec_text
  \/ OutputFile_exec_spawn
  \/ OutputFile_exec_wait
  \/ main_return

Spec == Init /\ [][Next]_vars

(* a one-script document drawn from every tag line, resolved and run *)
InitResolve ==
  /\ \E line \in AllLines : scripts = ScriptsOf(<<line>>)
  /\ receipts \in ResolveReceipts
  /\ InitRun

SpecResolve == InitResolve /\ [][Next]_vars

(* the source documents *)
Doc_hi == <<"p","r","e","\n","#","#","#"," ","e","x","t"," ","b","a","s","h"," ","-","c"," ","'","e","c","h","o"," ","h","i","'","\n","b","o","d","y","\n">>

Doc_triple == <<"p","\n","#","#","#"," ","s","h"," ","s","h","\n","a","\n","#","#","#"," ","l"," ","#"," ","p","y"," ","p","y","t","h","o","n","\n","b","\n","#","#","#"," ","r","b","\n","c","\n">>

Doc_shebang == <<"#","!","/","b","i","n","/","s","h","\n","p","r","e","\n","#","#","#"," ","e","x","t"," ","p","r","o","g","\n","b","o","d","y","\n">>

Doc_loose == <<"#","#","#","e","x","t"," ","p","r","o","g"," ","\n","b","1","\n","#","#","#"," ","!"," ","p","y","\n","b","2">>

Doc_args == <<"-","l","\n","#","#","#"," ","e","x","t"," ","p","r","o","g","\n","b","o","d","y","\n">>

Doc_pair == <<"p","\n","#","#","#"," ","s","h"," ","c","a","t"," ",">","1","<",",",">","2","<","\n","a","\n","#","#","#"," ","p","y"," ","w","c"," ",">","1","<"," ",">","<","\n","b","\n">>

Doc_far == <<"p","\n","#","#","#"," ","s","h"," ","s","h","\n","a","\n","#","#","#"," ","p","y"," ","c","a","t"," ",">","1","2","8","<","\n","b","\n">>

SourceDocs == {Doc_hi, Doc_triple, Doc_shebang, Doc_loose, Doc_args, Doc_pair, Doc_far}

Line_py == <<"p","y"," ","p","y","t","h","o","n">>

Line_py_tagged == <<"#","#","#"," ","p","y"," ","p","y","t","h","o","n">>

Line_py_spaced == <<" "," ","p","y"," ","p","y","t","h","o","n"," ">>

Line_py_close == <<"#","#","#","p","y">>

(* the values of SUBSET *)
OnlySubsets ==
  { <<"1">>, <<"1",",","2","-","3">>, <<"2","-","3">>, <<"1",",","1">>, <<"3","-","2">>,
    <<" ","3",","," ","1"," ">>, <<"x">>, <<"1","-","2","-","3">>, <<"1",",">>,
    <<"1","-">> }

(* the arguments of the command line *)
MainArgs ==
  { <<>>, << <<"-","l">> >>, << <<"-","-","l","i","s","t">>, <<"-","o">>, <<"2","-","3">> >>,
    << <<"-","d">>, <<"o","u","t">> >>,
    << <<"n","o","t","e","s",".","v","2",".","t","x","t">> >>,
    << <<"-","e">>, <<"1">>, Line_py >>, << <<"-","e">>, <<"1">>, Line_py_tagged >>,
    << <<"-","e">>, <<"2">>, Line_py >>, << <<"-","e">>, <<"2">>, Line_py_tagged >>,
    << <<"-","e">>, <<"x">>, Line_py >>,
    << <<"-","p">>, Line_py, <<"s","1">> >>, << <<"-","p">>, Line_py_tagged, <<"s","1">> >>,
    << <<"-","p">>, <<"!">>, <<"n","o","f","i","l","e">> >>, << <<"-","o">> >>,
    << <<"-","e">>, <<"1">>, Line_py_spaced >>, << <<"-","e">>, <<"1">>, Line_py_close >>,
    << <<"-","p">>, Line_py_spaced, <<"s","2">> >>, << <<"-","p">>, Line_py_close, <<"s","2">> >> }
  \cup { << <<"-","o">>, sub >> : sub \in OnlySubsets }

(* the data piped on standard input *)
StdinInputs ==
  { <<>>, <<"s","1">>, <<"s","1"," ","s","2">>, <<"s","1","\n","s","2">> }

(* main from its start: arguments over every source document with nothing *)
(* on standard input, or data on standard input without arguments         *)
InitMain ==
  /\ pc = "receive"
  /\ scripts = <<>>
  /\ receipts = <<>>
  /\ ri = 1
  /\ outputs = <<>>
  /\ context = <<>>
  /\ ai = 1
  /\ trace = <<>>
  /\ stdout = <<>>
  /\ stderr = <<>>
  /\ alive = {}
  /\ preface = <<>>
  /\ reader = [pc |-> "idle", bfr |-> <<>>]
  /\ chan = <<>>
  /\ recvd = <<>>
  /\ paths = <<>>
  /\ \/ /\ args \in MainArgs
        /\ file \in SourceDocs
        /\ stdin = [data |-> <<>>, pos |-> 0, eof |-> FALSE]
     \/ /\ args = <<>>
        /\ file = Doc_hi
        /\ \E d \in StdinInputs, e \in BOOLEAN : stdin = [data |-> d, pos |-> 0, eof |-> e]

NextMain ==
  \/ main_receive_cli
  \/ stdin_spawn
  \/ reader_read
  \/ reader_send
  \/ stdin_try_recv
  \/ stdin_paths
  \/ stdin_push
  \/ source_get
  \/ main_receive_src
  \/ if_change_in_args_make_then_exit
  \/ Next

SpecMain == InitMain /\ [][NextMain]_vars

(* main from its start where the main thread, once in the check of the     *)
(* standard input, goes on taking its steps: its sleeps are bounded and    *)
(* try_recv does not wait.  Nothing is assumed of the reader, whose read   *)
(* may never return.                                                       *)
SpecMainFair ==
  /\ SpecMain
  /\ WF_vars(stdin_spawn)
  /\ WF_vars(stdin_try_recv)
  /\ WF_vars(stdin_paths)
  /\ WF_vars(stdin_push)

(* ---------------------------------------------------------------------- *)
(* properties                                                              *)
(* ---------------------------------------------------------------------- *)

(* the indices of the collected outputs that are file outputs *)
FileOutputs == {k \in 1..Len(outputs) : outputs[k].kind = "File"}

(* the indices of the file outputs whose run is not precluded *)
CodeOutputs == {k \in FileOutputs : outputs[k].init.kind = "Code"}

(* the path of a file output, put together from its parts *)
Rendered(o) == o.path.dir \o <<"/">> \o o.path.stem \o <<".">> \o o.path.ext

(* the positions of the events of one kind for script n *)
Events(kind, n) == {p \in 1..Len(trace) : trace[p].ev = kind /\ trace[p].n = n}

(* every selected script has been resolved and the context holds exactly the *)
(* file outputs, each at its number with its path                            *)
ContextComplete ==
  /\ ri > Len(scripts)
  /\ DOMAIN context = {outputs[k].n : k \in FileOutputs}
  /\ \A k \in FileOutputs : context[outputs[k].n] = Rendered(outputs[k])

(* C1: the context is complete before the first directory is created, file *)
(* written or command spawned, and no step after outputs_get changes it.   *)
C1_ContextBuiltOnceThenReadOnly ==
  /\ [](trace # <<>> => ContextComplete)
  /\ [][pc # "outputs_get" => context' = context]_vars

(* C1 witness: a command has been spawned while the context holds the path *)
(* of a later script, whose file is not yet written                        *)
C1_Witness ==
  /\ pc = "wait"
  /\ \E n \in DOMAIN context : n > outputs[ai].n /\ Events("write", n) = {}

(* C2: the events are in ascending script order, a script's child has      *)
(* exited before any event of a later script, and at most one child is     *)
(* alive.                                                                  *)
C2_StrictlySequential ==
  /\ Cardinality(alive) <= 1
  /\ \A p, q \in 1..Len(trace) : p < q => trace[p].n <= trace[q].n
  /\ \A p, q \in 1..Len(trace) :
       (p < q /\ trace[p].ev = "spawn" /\ trace[p].n < trace[q].n)
         => \E r \in (p + 1)..(q - 1) : trace[r].ev = "exit" /\ trace[r].n = trace[p].n
  /\ \A n \in alive : Events("spawn", n) # {} /\ Events("exit", n) = {}

(* C2 witness: two scripts have both been written and run to their exit *)
C2_Witness ==
  \E j, k \in 1..Len(scripts) :
    /\ j < k
    /\ Events("exit", j) # {} /\ Events("exit", k) # {}
    /\ Events("write", j) # {} /\ Events("write", k) # {}

(* C3: a spawn for script n comes after the creation of its directory and  *)
(* the write of its body to its rendered path.                             *)
C3_WrittenBeforeSpawned ==
  \A q \in 1..Len(trace) :
    trace[q].ev = "spawn" =>
      \E k \in FileOutputs : \E d, w \in 1..(q - 1) :
        /\ outputs[k].n = trace[q].n
        /\ d < w
        /\ trace[d] = [ev |-> "create_dir", n |-> trace[q].n, dir |-> outputs[k].path.dir]
        /\ trace[w] = [ev |-> "write", n |-> trace[q].n,
                       path |-> Rendered(outputs[k]),
                       code |-> scripts[trace[q].n].body]

(* C3 witness: a command has been spawned *)
C3_Witness == \E q \in 1..Len(trace) : trace[q].ev = "spawn"

(* script n is selected and the run is not a listing *)
Processed(n) == only_allows(scripts[n], receipts) /\ "list" \notin DOMAIN receipts

(* C4: outside list mode, a selected script whose first token is the stop  *)
(* signal is never saved nor run; one whose second token is the stop       *)
(* signal is never run, and is saved by the time the run completes.        *)
C4_StopSignal ==
  \A n \in 1..Len(scripts) :
    LET tokens == data_items(scripts[n].line) IN
    /\ (Processed(n) /\ Len(tokens) >= 1 /\ tokens[1] = <<"!">>)
         => \A p \in 1..Len(trace) : trace[p].n # n
    /\ (Processed(n) /\ Len(tokens) >= 2 /\ tokens[1] # <<"!">> /\ tokens[2] = <<"!">>)
         => /\ Events("spawn", n) = {}
            /\ pc = "done" => Events("write", n) # {}

(* C4 witness: a completed run with a bypassed script and a saved, not run one *)
C4_Witness ==
  /\ pc = "done"
  /\ "list" \notin DOMAIN receipts
  /\ \E m, n \in 1..Len(scripts) :
       /\ Processed(m) /\ Len(data_items(scripts[m].line)) >= 1
       /\ data_items(scripts[m].line)[1] = <<"!">>
       /\ Processed(n) /\ Len(data_items(scripts[n].line)) >= 2
       /\ data_items(scripts[n].line)[1] # <<"!">>
       /\ data_items(scripts[n].line)[2] = <<"!">>
       /\ Events("write", n) # {}

(* the selected scripts, in document order *)
SelectedScripts == SelectSeq(scripts, LAMBDA sc : only_allows(sc, receipts))

(* the positions of the tail marker in a tag line *)
TailMarks(line) == {i \in 1..Len(line) : line[i] = "#"}

FirstOf(S) == CHOOSE i \in S : \A j \in S : i <= j

LastOf(S) == CHOOSE i \in S : \A j \in S : j <= i

(* the label of a tag line: the text before the first tail marker, if any *)
LabelOf(line) ==
  IF TailMarks(line) = {} THEN <<>> ELSE SubSeq(line, 1, FirstOf(TailMarks(line)) - 1)

(* the data of a tag line: the text after the first tail marker, or the    *)
(* whole line, without the whitespace around it                            *)
DataOf(line) ==
  LET rest == IF TailMarks(line) = {} THEN line
              ELSE SubSeq(line, FirstOf(TailMarks(line)) + 1, Len(line))
      inner == {i \in 1..Len(rest) : rest[i] \notin {" ", "\t"}}
  IN IF inner = {} THEN <<>> ELSE SubSeq(rest, FirstOf(inner), LastOf(inner))

(* "{N}:{label:} {data}" *)
ListText(sc) ==
  to_string(sc.n) \o <<":">>
  \o (IF LabelOf(sc.line) = <<>> THEN <<>> ELSE LabelOf(sc.line) \o <<":">>)
  \o <<" ">> \o DataOf(sc.line)

(* C5: in list mode nothing is created, written or spawned, nothing goes   *)
(* to stderr, and stdout holds "{N}:{label:} {data}" for the selected      *)
(* scripts in order: all of them once the run completes.                   *)
C5_ListMode ==
  "list" \in DOMAIN receipts =>
    /\ trace = <<>> /\ alive = {} /\ stderr = <<>>
    /\ pc # "fatal"
    /\ Len(stdout) <= Len(SelectedScripts)
    /\ \A k \in 1..Len(stdout) : stdout[k] = ListText(SelectedScripts[k])
    /\ pc = "done" => Len(stdout) = Len(SelectedScripts)

(* C5 witness: a completed listing of a labelled line and of a line with  *)
(* no data or with a malformed placeholder                                *)
C5_Witness ==
  /\ "list" \in DOMAIN receipts
  /\ pc = "done"
  /\ \E a, b \in 1..Len(stdout) :
       /\ SelectedScripts[a].line = Line_label
       /\ SelectedScripts[b].line \in {Line_absent, Line_badplc}

(* output k is run through the shell and one of its placeholders names a   *)
(* script other than its own that has no file output                       *)
MissingRef(k) ==
  /\ k \in CodeOutputs
  /\ \E j \in 1..Len(outputs[k].init.plcs) :
       /\ outputs[k].init.plcs[j].i # 0
       /\ outputs[k].init.plcs[j].i \notin {outputs[m].n : m \in FileOutputs}

(* C6: once the outputs are collected, an output with a placeholder for a  *)
(* script that has no file output is never spawned, the run never passes   *)
(* it, and no later script has any event.                                  *)
C6_MissingRefIsFatal ==
  pc # "outputs_get" =>
    \A k \in 1..Len(outputs) :
      MissingRef(k) =>
        /\ Events("spawn", outputs[k].n) = {}
        /\ ai <= k
        /\ pc # "done"
        /\ \A p \in 1..Len(trace) : trace[p].n <= outputs[k].n

(* C6 witness: the run has ended at such an output, after its file was     *)
(* written, with a later file output left untouched                        *)
C6_Witness ==
  /\ pc = "fatal"
  /\ ri > Len(scripts)
  /\ MissingRef(ai)
  /\ Events("write", outputs[ai].n) # {}
  /\ \E m \in FileOutputs : m > ai /\ Events("write", outputs[m].n) = {}

(* the next step of main is the print of an informational skip *)
AtSkip ==
  \/ pc = "apply" /\ ai <= Len(outputs) /\ outputs[ai].kind = "Text"
  \/ pc = "exec" /\ outputs[ai].init.kind = "Text"

(* every file output is written and every command has run to its exit *)
AllProcessed ==
  /\ \A k \in FileOutputs : Events("write", outputs[k].n) # {}
  /\ \A k \in CodeOutputs :
       Events("spawn", outputs[k].n) # {} /\ Events("exit", outputs[k].n) # {}

(* C7: the step at an informational skip goes on to the next output, never *)
(* to the end of the process; a run that ends other than by a fatal error  *)
(* has written every file output and run every command.                    *)
C7_SkipNeverAborts ==
  /\ [][AtSkip => (pc' = "apply" /\ ai' = ai + 1)]_vars
  /\ [](pc = "done" => AllProcessed)

(* C7 witness: a completed run where a script without data, bypassed or   *)
(* saved but not run precedes a script that was written and run           *)
C7_Witness ==
  /\ pc = "done"
  /\ \E j, k \in 1..Len(outputs) :
       /\ j < k
       /\ \/ outputs[j].kind = "Text" /\ outputs[j].stream = "Stderr"
          \/ j \in FileOutputs /\ outputs[j].init.kind = "Text"
       /\ k \in CodeOutputs
       /\ Events("write", outputs[k].n) # {}
       /\ Events("exit", outputs[k].n) # {}

(* the token has a placeholder head somewhere before a placeholder tail *)
HasHeadThenTail(tok) ==
  \E i, j \in 1..Len(tok) : i < j /\ tok[i] = ">" /\ tok[j] = "<"

(* the token holds the path placeholder: head and tail with nothing or     *)
(* only digits between them                                                *)
HasPlaceholder(tok) ==
  \E i, j \in 1..Len(tok) :
    /\ i < j /\ tok[i] = ">" /\ tok[j] = "<"
    /\ \A m \in (i + 1)..(j - 1) : IsDigit(tok[m])

(* neither the save nor the run is precluded by the tokens *)
NotSkipped(tokens) ==
  Len(tokens) >= 2 /\ tokens[1] # <<"!">> /\ tokens[2] # <<"!">>

(* not skipped, and no token after the path token has head before tail *)
PlainCommand(tokens) ==
  NotSkipped(tokens) /\ \A t \in 2..Len(tokens) : ~HasHeadThenTail(tokens[t])

C9_Composite ==
  \A k \in FileOutputs :
    LET data == outputs[k].data IN
    (NotSkipped(data) /\ \E t \in 2..Len(data) : HasPlaceholder(data[t])) =>
      /\ outputs[k].init.kind = "Code"
      /\ outputs[k].init.prog = <<"b","a","s","h">>
      /\ outputs[k].init.args = << <<"-","c">>, join(Tail(data), <<" ">>) >>

(* the part of the path token after its last '/' *)
FilenamePart(tok) ==
  LET slashes == {i \in 1..Len(tok) : tok[i] = "/"} IN
  IF slashes = {} THEN tok ELSE SubSeq(tok, LastOf(slashes) + 1, Len(tok))

(* C10: where the filename part of the path token has a dot, it is         *)
(* stem + "." + ext with no dot in ext, and the rendered path (the context *)
(* entry) is dir + "/" + stem + "." + ext.                                 *)
C10_StemAndExt ==
  \A k \in FileOutputs :
    LET o == outputs[k]
        f == FilenamePart(o.data[1])
    IN (\E i \in 1..Len(f) : f[i] = ".") =>
         /\ f = o.path.stem \o <<".">> \o o.path.ext
         /\ \A i \in 1..Len(o.path.ext) : o.path.ext[i] # "."
         /\ pc # "outputs_get" =>
              context[o.n] = o.path.dir \o <<"/">> \o o.path.stem \o <<".">> \o o.path.ext

(* C10 witness: 'script.suffix1.suffix2.ext' resolved and in the context *)
C10_Witness ==
  /\ pc # "outputs_get"
  /\ \E k \in FileOutputs :
       /\ outputs[k].path.stem = <<"s","c","r","i","p","t",".","s","u","f","f","i","x","1",".","s","u","f","f","i","x","2">>
       /\ outputs[k].path.ext = <<"e","x","t">>

(* the source path without its extension: the text before the last dot of *)
(* its last '/'-segment, or the whole path where that segment has no dot   *)
SourceStem(src) ==
  LET f    == FilenamePart(src)
      dots == {i \in 1..Len(f) : f[i] = "."}
  IN IF dots = {} THEN src
     ELSE SubSeq(src, 1, Len(src) - Len(f) + LastOf(dots) - 1)

(* C11, as claimed: where the filename part of the path token has no dot,  *)
(* ext is that part and stem is the source path without its extension, for *)
(* every source path.                                                      *)
C11_BareExtension ==
  \A k \in FileOutputs :
    LET o == outputs[k]
        f == FilenamePart(o.data[1])
    IN (\A i \in 1..Len(f) : f[i] # ".") =>
         /\ o.path.ext = f
         /\ o.path.stem = SourceStem(Config_get(receipts, "path_src", "path_src"))

(* the resolved directory name: the 'dest' override when set, else the    *)
(* default                                                                 *)
ResolvedDir ==
  IF "dest" \in DOMAIN receipts THEN receipts["dest"].strs[1]
  ELSE <<"s","c","r","i","p","t","s">>

(* the directory of a path token: the text before its last '/', with a     *)
(* first segment '>' replaced by the directory name; the directory name    *)
(* where the token has no '/'                                              *)
DirOf(tok, name) ==
  LET slashes == {i \in 1..Len(tok) : tok[i] = "/"}
      pre     == SubSeq(tok, 1, LastOf(slashes) - 1)
  IN IF slashes = {} THEN name
     ELSE IF pre = <<">">> THEN name
     ELSE IF Len(pre) >= 2 /\ pre[1] = ">" /\ pre[2] = "/"
          THEN name \o SubSeq(pre, 2, Len(pre))
     ELSE pre

(* C12: the dir of every resolved path is the '/'-segments before the      *)
(* filename part rejoined, a first segment '>' replaced by the resolved    *)
(* directory name, or that name where there is no such segment.            *)
C12_Directory ==
  \A k \in FileOutputs : outputs[k].path.dir = DirOf(outputs[k].data[1], ResolvedDir)

(* C12 witness: '>/sub/script.ext' resolved under the override 'out', with *)
(* the dir 'out/sub'                                                       *)
C12_Witness ==
  /\ "dest" \in DOMAIN receipts
  /\ \E k \in FileOutputs :
       /\ outputs[k].data[1] = <<">","/","s","u","b","/","s","c","r","i","p","t",".","e","x","t">>
       /\ outputs[k].path.dir = <<"o","u","t","/","s","u","b">>

(* the largest number written in a SUBSET *)
MaxNumber == 9

(* the SUBSET values given with -o on the command line *)
SubsetArgs == {args[j + 1] : j \in {i \in 1..(Len(args) - 1) : args[i] = <<"-","o">>}}

(* n is the number written as the item, or within the range a-b written as *)
(* the item                                                                *)
ItemHas(item, n) ==
  \E a, b \in 0..MaxNumber :
    \/ item = to_string(a) /\ n = a
    \/ item = to_string(a) \o <<"-">> \o to_string(b) /\ a <= n /\ n <= b

(* n appears in the comma-separated SUBSET *)
InSubset(n, sub) ==
  LET items == split(sub, <<",">>) IN \E i \in 1..Len(items) : ItemHas(trim(items[i]), n)

(* SUBSET is written as comma-separated numbers and ranges a-b *)
WellFormedSubset(sub) ==
  LET items == split(sub, <<",">>) IN
  \A i \in 1..Len(items) : \E a, b \in 0..MaxNumber :
    \/ trim(items[i]) = to_string(a)
    \/ trim(items[i]) = to_string(a) \o <<"-">> \o to_string(b)

(* the numbers of the scripts of the document that appear in SUBSET, in    *)
(* document order                                                          *)
SubsetScripts(sub) ==
  LET all == [n \in 1..Len(scripts) |-> n] IN SelectSeq(all, LAMBDA n : InSubset(n, sub))

(* C13: with -o SUBSET, SUBSET written as comma-separated numbers and      *)
(* ranges, the outputs resolved are those of the scripts                   *)
(* whose number appears in SUBSET, one each, in document order and under   *)
(* their document numbers; every directory created, file written and       *)
(* command run belongs to such a script, and no file is written twice.     *)
C13_OnlySubset ==
  \A sub \in SubsetArgs :
    (WellFormedSubset(sub) /\ "only" \in DOMAIN receipts /\ pc # "receive") =>
      LET sel == SubsetScripts(sub) IN
      /\ Len(outputs) <= Len(sel)
      /\ (ri > Len(scripts) /\ scripts # <<>>) => Len(outputs) = Len(sel)
      /\ \A k \in FileOutputs : outputs[k].n = sel[k]
      /\ \A p \in 1..Len(trace) : InSubset(trace[p].n, sub)
      /\ \A n \in 1..Len(scripts) : Cardinality(Events("write", n)) <= 1
      /\ \A p, q \in 1..Len(trace) :
           (p < q /\ trace[p].ev = "write" /\ trace[q].ev = "write") => trace[p].n < trace[q].n

(* C13 witness: the run of the three-script document under -o 2-3 is over, *)
(* with scripts 2 and 3 written and script 1 not                           *)
C13_Witness ==
  /\ pc = "done"
  /\ args = << <<"-","o">>, <<"2","-","3">> >>
  /\ Len(scripts) = 3
  /\ Events("write", 1) = {}
  /\ Events("write", 2) # {}
  /\ Events("write", 3) # {}

(* the paths piped: the runs of the data without spaces and newlines *)
PipedPaths ==
  LET seps   == {0, Len(stdin.data) + 1}
                  \cup {i \in 1..Len(stdin.data) : stdin.data[i] \in {" ", "\n"}}
      starts == {i \in 1..Len(stdin.data) : i \notin seps /\ (i - 1) \in seps}
      stops  == [i \in starts |-> CHOOSE j \in seps : j > i /\ \A m \in seps : m > i => j <= m]
      order  == [k \in 1..Cardinality(starts) |->
                   CHOOSE i \in starts : Cardinality({m \in starts : m < i}) = k - 1]
  IN [k \in 1..Cardinality(starts) |-> SubSeq(stdin.data, order[k], stops[order[k]] - 1)]

(* the text appended for the piped paths from the k-th on: for each the    *)
(* tag line '### !' and the content of the script file                     *)
RECURSIVE AppendedFrom(_)
AppendedFrom(k) ==
  IF k > Len(PipedPaths) THEN <<>>
  ELSE <<"\n","#","#","#"," ","!","\n","\n">> \o ScriptFiles[PipedPaths[k]] \o AppendedFrom(k + 1)

(* main is past the check of standard input *)
PastStdinCheck == pc \notin {"receive", "stdin_spawn", "stdin_poll", "stdin_paths", "stdin_push"}

(* C14, as claimed: when paths are piped, then however the reader thread   *)
(* and main interleave, main leaves the check of standard input by exit,   *)
(* with each path appended to the source under the tag line '### !' in     *)
(* input order and nothing saved or run.                                   *)
C14_PipedPathsAppended ==
  (PipedPaths # <<>> /\ PastStdinCheck) =>
    /\ pc = "exit"
    /\ file = Doc_hi \o AppendedFrom(1)
    /\ trace = <<>>

(* the line begins with the tag head *)
HasTagHead(line) == Len(line) >= 3 /\ SubSeq(line, 1, 3) = <<"#","#","#">>

(* LINE as a tag line: itself, or the tag head and a space before it *)
TaggedLine(line) == IF HasTagHead(line) THEN line ELSE <<"#","#","#"," ">> \o line

(* the text with its n-th tag line replaced by the line, and nothing else  *)
(* changed                                                                 *)
EditedText(text, n, line) ==
  LET ls     == split(text, <<"\n">>)
      tagged == {i \in 1..Len(ls) : HasTagHead(ls[i])}
  IN join([i \in 1..Len(ls) |->
             IF i \in tagged /\ Cardinality({m \in tagged : m < i}) = n - 1
             THEN TaggedLine(line) ELSE ls[i]], <<"\n">>)

(* C15, as claimed: the edit -e N LINE writes the source with the tag line *)
(* of script N replaced by LINE (the tag head added if it has none) and    *)
(* the preface, the other tag lines and the bodies as they were, then      *)
(* exits.                                                                  *)
C15_EditFrame ==
  [][(pc = "edit" /\ pc' = "exit") =>
       file' = EditedText(file, digits_val(receipts["edit"].strs[1]),
                          receipts["edit"].strs[2])]_vars

(* the line without the whitespace around it *)
Stripped(line) ==
  LET inner == {i \in 1..Len(line) : line[i] \notin {" ", "\t"}} IN
  IF inner = {} THEN <<>> ELSE SubSeq(line, FirstOf(inner), LastOf(inner))

(* the tag line stored for LINE: LINE itself where it begins with the tag  *)
(* head, else the tag head, a space and LINE without the whitespace around *)
(* it                                                                      *)
StoredLine(line) ==
  IF HasTagHead(line) THEN line ELSE <<"#","#","#"," ">> \o Stripped(line)

(* the LINE arguments of the command line *)
LinesGiven ==
  {args[j + 2] : j \in {i \in 1..(Len(args) - 2) : args[i] = <<"-","e">>}}
  \cup {args[j + 1] : j \in {i \in 1..(Len(args) - 2) : args[i] = <<"-","p">>}}

(* the lines of the text that begin with the tag head, in order *)
TagLinesOf(text) == SelectSeq(split(text, <<"\n">>), HasTagHead)

(* C16: tag_head_add leaves a line with the tag head as it is and turns    *)
(* any other into '### ' and the trimmed line, so applying it twice is     *)
(* applying it once; a push appends, and an edit puts at script N, exactly *)
(* that tag line, which is the same for LINE and for LINE already tagged.  *)
C16_TagHeadIdempotent ==
  /\ [](\A line \in LinesGiven :
          /\ tag_head_add(line) = StoredLine(line)
          /\ tag_head_add(tag_head_add(line)) = tag_head_add(line))
  /\ [][(pc = "receive" /\ pc' = "exit") =>
          \E line \in LinesGiven :
            /\ file' = file \o <<"\n">> \o StoredLine(line) \o <<"\n","\n">>
                            \o ScriptFiles[args[3]]
            /\ StoredLine(StoredLine(line)) = StoredLine(line)]_vars
  /\ [][(pc = "edit" /\ pc' = "exit") =>
          \E line \in LinesGiven :
            LET n == digits_val(args[2]) IN
            n <= Len(scripts) => TagLinesOf(file')[n] = StoredLine(line)]_vars

(* C16 witness: the push of the tagged '### py python' has appended that   *)
(* line as it is, as the push of 'py python' does                          *)
C16_Witness ==
  /\ pc = "exit"
  /\ args = << <<"-","p">>, Line_py_tagged, <<"s","1">> >>
  /\ file = Doc_hi \o <<"\n">> \o StoredLine(Line_py) \o <<"\n","\n">> \o ScriptFiles[<<"s","1">>]

(* the scenario: the document "pre\n### ext bash -c 'echo hi'\nbody\n", *)
(* no arguments, nothing piped                                             *)
ScenarioHi == file = Doc_hi /\ args = <<>> /\ stdin.data = <<>>

(* main has read the source and resolved every script *)
Resolved ==
  /\ PastStdinCheck
  /\ pc \notin {"source_get", "receive_src", "edit", "outputs_get"}
  /\ \A p \in 1..Len(stderr) : stderr[p][1] # "Not parsing source file '"

(* the scenario resolves to one file output for 'scripts/src.ext' whose    *)
(* command is bash with the arguments given, and nothing is written but    *)
(* 'body' to that path nor spawned but that command                        *)
ScenarioHiResolvesTo(arguments) ==
  (ScenarioHi /\ Resolved) =>
    /\ Len(scripts) = 1
    /\ Len(outputs) = 1
    /\ outputs[1].kind = "File"
    /\ outputs[1].path = [dir |-> <<"s","c","r","i","p","t","s">>, stem |-> <<"s","r","c">>,
                          ext |-> <<"e","x","t">>]
    /\ outputs[1].init.kind = "Code"
    /\ outputs[1].init.prog = <<"b","a","s","h">>
    /\ outputs[1].init.args = arguments
    /\ outputs[1].init.plcs = <<>>
    /\ \A p \in Events("write", 1) :
         /\ trace[p].path = <<"s","c","r","i","p","t","s","/","s","r","c",".","e","x","t">>
         /\ trace[p].code = <<"b","o","d","y">>
    /\ \A p \in Events("spawn", 1) :
         trace[p].prog = <<"b","a","s","h">> /\ trace[p].args = arguments
    /\ pc = "done" => Events("write", 1) # {} /\ Events("spawn", 1) # {}

(* C17, as claimed: the quoted 'echo hi' is one argument *)
C17_QuotedArgument ==
  ScenarioHiResolvesTo(<< <<"-","c">>, <<"e","c","h","o"," ","h","i">>,
                          <<"s","c","r","i","p","t","s","/","s","r","c",".","e","x","t">> >>)

(* C17, amended: the scenario gives one fragment with the path            *)
(* scripts/src.ext and Direct{bash, ['-c', "'echo", "hi'", path]}: the     *)
(* tokens are split on spaces, quotes do not group; the file is written    *)
(* with the content 'body'.                                                *)
C17_Scenario ==
  ScenarioHiResolvesTo(<< <<"-","c">>, <<"'","e","c","h","o">>, <<"h","i","'">>,
                          <<"s","c","r","i","p","t","s","/","s","r","c",".","e","x","t">> >>)

(* C17 witness: the run of the scenario is over, the file written and the *)
(* command spawned                                                         *)
C17_Witness ==
  /\ ScenarioHi
  /\ pc = "done"
  /\ \E p \in Events("write", 1) : trace[p].code = <<"b","o","d","y">>
  /\ \E p \in Events("spawn", 1) : Len(trace[p].args) = 4

(* the first token of the data: its text up to the first space *)
FirstToken(data) ==
  LET spaces == {i \in 1..Len(data) : data[i] = " "} IN
  IF spaces = {} THEN data ELSE SubSeq(data, 1, FirstOf(spaces) - 1)

(* script n is in the subset of the run *)
Selected(n) ==
  "only" \in DOMAIN receipts =>
    \E i \in 1..Len(receipts["only"].ints) : receipts["only"].ints[i] = n

(* the numbers of the scripts whose output is materialized: selected, not  *)
(* in list mode, with tag data that does not begin with the stop signal    *)
MaterializedNumbers ==
  {n \in 1..Len(scripts) :
     /\ Selected(n)
     /\ "list" \notin DOMAIN receipts
     /\ DataOf(scripts[n].line) # <<>>
     /\ FirstToken(DataOf(scripts[n].line)) # <<"!">>}

(* every script has been resolved and the context built *)
AfterResolve == pc # "outputs_get" /\ ri > Len(scripts)

(* C18: after the resolve phase the keys of the context are exactly the    *)
(* numbers of the materialized scripts, those whose run is skipped         *)
(* included, and each entry is the rendered path of its script's output.   *)
C18_ContextKeys ==
  AfterResolve =>
    /\ DOMAIN context = MaterializedNumbers
    /\ \A n \in DOMAIN context :
         \E k \in FileOutputs : outputs[k].n = n /\ context[n] = Rendered(outputs[k])

(* C18 witness: the context holds a script whose run is skipped after the  *)
(* save, and leaves out a bypassed script                                  *)
C18_Witness ==
  /\ AfterResolve
  /\ \E n \in DOMAIN context : scripts[n].line = Line_norun
  /\ \E m \in 1..Len(scripts) : m \notin DOMAIN context /\ scripts[m].line = Line_bypass

(* the outcome of a script: list mode first, then no tag data, then the   *)
(* stop signal as first token, else resolved                               *)
Outcome(sc) ==
  IF "list" \in DOMAIN receipts THEN "ListOnly"
  ELSE IF DataOf(sc.line) = <<>> THEN "NoData"
  ELSE IF FirstToken(DataOf(sc.line)) = <<"!">> THEN "Bypassed"
  ELSE "Resolved"

(* the selected scripts, in document order *)
SelectedInOrder == SelectSeq(scripts, LAMBDA sc : Selected(sc.n))

(* the text of the outcome that is printed *)
OutcomeText(sc) ==
  CASE Outcome(sc) = "ListOnly" -> ListText(sc)
    [] Outcome(sc) = "NoData"   -> <<"No tag data found for script no. ">> \o to_string(sc.n)
    [] Outcome(sc) = "Bypassed" -> <<"Bypassing script no. ">> \o to_string(sc.n)
                                     \o <<" (", "!", " applied)">>
    [] OTHER -> <<>>

(* C19: the k-th output is that of the k-th selected script and is decided *)
(* by its outcome: ListOnly a text on stdout, NoData and Bypassed a text   *)
(* on stderr, Resolved a file output, the only one to reach the path and   *)
(* command resolution (and so the only one whose resolution can end the    *)
(* process; a run with the edit option ends before any resolution); an     *)
(* applied text is printed on its stream only.                             *)
C19_Outcomes ==
  /\ Len(outputs) <= Len(SelectedInOrder)
  /\ \A k \in 1..Len(outputs) :
       LET sc == SelectedInOrder[k]
           o  == outputs[k]
       IN /\ Outcome(sc) = "ListOnly" =>
               o = [kind |-> "Text", stream |-> "Stdout", text |-> OutcomeText(sc)]
          /\ Outcome(sc) \in {"NoData", "Bypassed"} =>
               o = [kind |-> "Text", stream |-> "Stderr", text |-> OutcomeText(sc)]
          /\ Outcome(sc) = "Resolved" <=> o.kind = "File"
          /\ o.kind = "File" => o.n = sc.n
          /\ (o.kind = "Text" /\ (k < ai \/ pc = "done")) =>
               IF o.stream = "Stdout"
               THEN (\E p \in 1..Len(stdout) : stdout[p] = o.text)
                    /\ \A p \in 1..Len(stderr) : stderr[p] # o.text
               ELSE (\E p \in 1..Len(stderr) : stderr[p] = o.text)
                    /\ \A p \in 1..Len(stdout) : stdout[p] # o.text
  /\ (pc = "fatal" /\ ri <= Len(scripts) /\ "edit" \notin DOMAIN receipts) =>
       Outcome(scripts[ri]) = "Resolved"
  /\ AfterResolve => Len(outputs) = Len(SelectedInOrder)

(* C19 witness: a run outside list mode is over with a script without tag  *)
(* data and a bypassed script, both reported on stderr                     *)
C19_Witness ==
  /\ pc = "done"
  /\ "list" \notin DOMAIN receipts
  /\ \E a, b \in 1..Len(outputs) :
       /\ Outcome(SelectedInOrder[a]) = "NoData"
       /\ Outcome(SelectedInOrder[b]) = "Bypassed"
       /\ \E p, q \in 1..Len(stderr) : stderr[p] = outputs[a].text /\ stderr[q] = outputs[b].text

(* the run of script n is precluded: it is processed, its first token is a *)
(* path, and nothing or the stop signal follows                            *)
RunPrecluded(n) ==
  LET tokens == data_items(scripts[n].line) IN
  /\ Processed(n)
  /\ tokens # <<>> /\ tokens[1] # <<"!">>
  /\ (Len(tokens) = 1 \/ tokens[2] = <<"!">>)

(* the text given for a precluded run *)
PrecludedText(n) ==
  <<"Not running file no. ">> \o to_string(n)
    \o (IF Len(data_items(scripts[n].line)) = 1
        THEN <<" (no values)">> ELSE <<" (", "!", " applied)">>)

(* C20: a script with a path token only, or with the stop signal as second *)
(* token, resolves to a file output whose init is the text for stderr      *)
(* alone: no program, arguments or placeholders, whatever the later tokens *)
(* are, and its resolution never ends the process.                         *)
C20_SkipPrecedence ==
  \A n \in 1..Len(scripts) :
    RunPrecluded(n) =>
      /\ ~(pc = "fatal" /\ ri = n /\ "edit" \notin DOMAIN receipts)
      /\ (ri > n /\ PastStdinCheck /\ "edit" \notin DOMAIN receipts) =>
           \E k \in FileOutputs : outputs[k].n = n
      /\ \A k \in FileOutputs :
           outputs[k].n = n =>
             outputs[k].init = [kind |-> "Text", stream |-> "Stderr",
                                text |-> PrecludedText(n)]

(* C20 witness: a script whose stop signal is followed by a placeholder    *)
(* that does not parse has been resolved                                   *)
C20_Witness ==
  /\ pc = "done"
  /\ \E k \in FileOutputs :
       /\ scripts[outputs[k].n].line = Line_stopbad
       /\ outputs[k].init.kind = "Text"

(* the placeholders of a token from position p on, in order: a head, then  *)
(* digits or nothing, then a tail; the number is 0 where nothing is between *)
RECURSIVE PlcMatchesFrom(_, _)
PlcMatchesFrom(tok, p) ==
  IF p > Len(tok) THEN <<>>
  ELSE LET qs == {q \in (p + 1)..Len(tok) :
                    /\ tok[p] = ">" /\ tok[q] = "<"
                    /\ \A m \in (p + 1)..(q - 1) : IsDigit(tok[m])}
       IN (IF qs = {} THEN <<>>
           ELSE << [ i |-> IF FirstOf(qs) = p + 1 THEN 0
                           ELSE digits_val(SubSeq(tok, p + 1, FirstOf(qs) - 1)),
                     s |-> SubSeq(tok, p, FirstOf(qs)) ] >>)
          \o PlcMatchesFrom(tok, p + 1)

(* the placeholders of the tokens from token t on *)
RECURSIVE PlcMatchesOf(_, _)
PlcMatchesOf(tokens, t) ==
  IF t > Len(tokens) THEN <<>>
  ELSE PlcMatchesFrom(tokens[t], 1) \o PlcMatchesOf(tokens, t + 1)

(* C21, as claimed: the placeholders recorded for a resolved command are   *)
(* those of its tokens after the path token, one for each occurrence of    *)
(* head, digits or nothing, tail, with the number (0 for none) and the     *)
(* matched text; a script without a token with head before tail does not   *)
(* end the process while it is resolved.                                   *)
C21_PlaceholderScan ==
  /\ \A k \in CodeOutputs :
       outputs[k].init.plcs = PlcMatchesOf(outputs[k].data, 2)
  /\ (pc = "fatal" /\ ri <= Len(scripts) /\ "edit" \notin DOMAIN receipts) =>
       \E t \in 2..Len(data_items(scripts[ri].line)) :
         HasHeadThenTail(data_items(scripts[ri].line)[t])

(* the context key of a recorded placeholder of script n *)
PlcKey(plc, n) == IF plc.i = 0 THEN n ELSE plc.i

(* the recorded placeholders whose text stands at position p of t *)
PlcHits(t, p, plcs) ==
  {j \in 1..Len(plcs) :
     /\ p + Len(plcs[j].s) - 1 <= Len(t)
     /\ SubSeq(t, p, p + Len(plcs[j].s) - 1) = plcs[j].s}

(* t from position p on, read left to right, with the text of each        *)
(* recorded placeholder replaced by the context path of its key            *)
RECURSIVE SubstFrom(_, _, _, _, _)
SubstFrom(t, p, plcs, n, ctx) ==
  IF p > Len(t) THEN <<>>
  ELSE IF PlcHits(t, p, plcs) = {}
  THEN <<t[p]>> \o SubstFrom(t, p + 1, plcs, n, ctx)
  ELSE ctx[PlcKey(plcs[FirstOf(PlcHits(t, p, plcs))], n)]
       \o SubstFrom(t, p + Len(plcs[FirstOf(PlcHits(t, p, plcs))].s), plcs, n, ctx)

(* the tokens after the path token joined by single spaces *)
RECURSIVE TemplateFrom(_, _)
TemplateFrom(data, t) ==
  IF t > Len(data) THEN <<>>
  ELSE data[t] \o (IF t < Len(data) THEN <<" ">> ELSE <<>>) \o TemplateFrom(data, t + 1)

(* the spawns of commands with recorded placeholders: (event, output) *)
CompositeSpawns ==
  {qk \in (1..Len(trace)) \X CodeOutputs :
     /\ trace[qk[1]].ev = "spawn"
     /\ outputs[qk[2]].n = trace[qk[1]].n
     /\ outputs[qk[2]].init.plcs # <<>>}

(* C22, as claimed: the command spawned for a script with placeholders     *)
(* holds no placeholder text any more.                                     *)
C22_NoPlaceholderRemains ==
  \A qk \in CompositeSpawns : ~HasPlaceholder(trace[qk[1]].args[2])

(* what exec does with the recorded placeholders: the command spawned is   *)
(* the shell program with the flag and the template (the tokens after path *)
(* token joined by single spaces) in which the text of every recorded      *)
(* placeholder is replaced, wherever it stands, by the context path of its *)
(* target (the script's own for number 0), and nothing else is changed.    *)
Recorded_Substituted ==
  \A qk \in CompositeSpawns :
    /\ trace[qk[1]].prog = <<"b","a","s","h">>
    /\ trace[qk[1]].args =
         << <<"-","c">>,
            SubstFrom(TemplateFrom(outputs[qk[2]].data, 2), 1,
                      outputs[qk[2]].init.plcs, outputs[qk[2]].n, context) >>

(* a command with a reference to an earlier script and one to its own      *)
(* script has been spawned with both paths in place                        *)
Substituted_Witness ==
  \E qk \in CompositeSpawns :
    /\ outputs[qk[2]].n = 2
    /\ Len(outputs[qk[2]].init.plcs) = 2
    /\ 1 \in DOMAIN context
    /\ trace[qk[1]].args[2] = <<"w","c"," ">> \o context[1] \o <<" ">> \o context[2]

(* the tag line with whitespace put before and after its data *)
Padded(line) ==
  line_sections(line)[1] \o <<" ", "\t">> \o line_sections(line)[2] \o <<"\t", " ">>

(* C23, as claimed: no token of a resolved tag line is empty or holds a    *)
(* space or a tab, and whitespace put around the data of a tag line leaves *)
(* its tokens as they are.                                                 *)
C23_Tokens ==
  /\ \A k \in FileOutputs : \A t \in 1..Len(outputs[k].data) :
       /\ outputs[k].data[t] # <<>>
       /\ \A m \in 1..Len(outputs[k].data[t]) : outputs[k].data[t][m] \notin {" ", "\t"}
  /\ \A n \in 1..Len(scripts) :
       data_items(Padded(scripts[n].line)) = data_items(scripts[n].line)

(* the tokens of the data from position p on: its runs without a space *)
RECURSIVE SpaceTokensFrom(_, _)
SpaceTokensFrom(d, p) ==
  IF p > Len(d) THEN <<>>
  ELSE IF d[p] = " " THEN SpaceTokensFrom(d, p + 1)
  ELSE <<SubSeq(d, p, FirstOf({e \in p..Len(d) : e = Len(d) \/ d[e + 1] = " "}))>>
       \o SpaceTokensFrom(d, FirstOf({e \in p..Len(d) : e = Len(d) \/ d[e + 1] = " "}) + 1)

(* the script with its tag line cut down to the text after the first tail  *)
(* marker                                                                  *)
Unlabelled(sc) ==
  [sc EXCEPT !.line = IF TailMarks(sc.line) = {} THEN sc.line
                      ELSE SubSeq(sc.line, FirstOf(TailMarks(sc.line)) + 1, Len(sc.line))]

(* the text after the first tail marker holds no further one *)
PlainData(sc) == TailMarks(Unlabelled(sc).line) = {}

SourceReadFailed ==
  /\ pc = "fatal"
  /\ \E p \in 1..Len(stderr) : stderr[p][1] = "Not parsing source file '"

(* a step of main in the save or the spawn that leaves the trace as it is: *)
(* the directory is not created, the file not written, the child not       *)
(* spawned                                                                 *)
StepFails ==
  /\ reader' = reader
  /\ \/ pc = "apply" /\ ai <= Len(outputs) /\ outputs[ai].kind = "File"
     \/ pc = "save_write"
     \/ pc = "exec" /\ outputs[ai].init.kind = "Code"
  /\ trace' = trace

(* where the process has ended at output ai *)
AbortedAt ==
  /\ SourceReadFailed => scripts = <<>> /\ outputs = <<>> /\ trace = <<>>
  /\ \A p \in 1..Len(trace) : \E j \in 1..Len(outputs) :
       j <= ai /\ outputs[j].kind = "File" /\ outputs[j].n = trace[p].n
  /\ (ai <= Len(outputs) /\ outputs[ai].kind = "File"
        /\ Events("write", outputs[ai].n) = {}) =>
       Events("spawn", outputs[ai].n) = {}

(* C25: a failed read of the source ends the process before any script is  *)
(* taken; a step of the save or of the spawn that fails ends the process   *)
(* at once; once ended, the process takes no further step (nothing is      *)
(* retried), no command has been spawned for a script whose directory or   *)
(* file was not written, and nothing is written or spawned for any later   *)
(* script.                                                                 *)
C25_FatalAborts ==
  /\ [](pc = "fatal" => AbortedAt)
  /\ [][pc # "fatal" /\ (StepFails => pc' = "fatal")]_vars

(* C25 witness: the write of the first of several file outputs has failed  *)
(* after its directory was created, and the process has ended              *)
C25_Witness ==
  /\ pc = "fatal"
  /\ ai < Len(outputs)
  /\ outputs[ai].kind = "File" /\ outputs[ai + 1].kind = "File"
  /\ Events("create_dir", outputs[ai].n) # {}
  /\ Events("write", outputs[ai].n) = {}
  /\ trace[Len(trace)].ev = "create_dir"

(* main is in the check of the standard input *)
InCheck == pc \in {"stdin_spawn", "stdin_poll", "stdin_paths", "stdin_push"}

C27_MalformedSubsetFatal ==
  \A sub \in SubsetArgs :
    ~WellFormedSubset(sub) =>
      /\ pc \in {"receive", "fatal"}
      /\ scripts = <<>> /\ outputs = <<>> /\ trace = <<>>

(* the scripts whose file has been written before trace position q *)
WrittenBefore(q) == {trace[w].n : w \in {x \in 1..(q - 1) : trace[x].ev = "write"}}

(* the scripts with a file output numbered up to n *)
FileNumbersUpTo(n) == {outputs[j].n : j \in {x \in FileOutputs : outputs[x].n <= n}}

(* C28: when the command of script n is spawned, the files written so far  *)
(* are exactly those of the file outputs numbered up to n; so the          *)
(* file of a later script whose path a placeholder of the command stands   *)
(* for has not been written.                                               *)
C28_LazyWrites ==
  \A q \in 1..Len(trace) :
    trace[q].ev = "spawn" =>
      /\ WrittenBefore(q) = FileNumbersUpTo(trace[q].n)
      /\ \A k \in CodeOutputs :
           outputs[k].n = trace[q].n =>
             \A j \in 1..Len(outputs[k].init.plcs) :
               outputs[k].init.plcs[j].i > trace[q].n =>
                 outputs[k].init.plcs[j].i \notin WrittenBefore(q)

(* C28 witness: the command of script 1 has been spawned with the path of  *)
(* script 2 in place of its placeholder, and the file of script 2 is not   *)
(* written                                                                 *)
C28_Witness ==
  /\ pc = "wait" /\ ai = 1
  /\ scripts[1].line = Line_ref2
  /\ 2 \in DOMAIN context
  /\ trace[Len(trace)].ev = "spawn"
  /\ trace[Len(trace)].args = << <<"-","c">>, <<"c","a","t"," ">> \o context[2] >>
  /\ Events("write", 2) = {}

(* the exit of the child of output ai with the status is added to the trace *)
ExitRecorded(status) ==
  trace' = Append(trace, [ev |-> "exit", n |-> outputs[ai].n, status |-> status])

(* C29: the step of main after a spawn either takes the exit of the child, *)
(* with status 0 or not, and goes on to the next output, or is the failed  *)
(* wait that ends the process; a run that completes has taken the exit of  *)
(* every command it spawned, and the process never ends right after an     *)
(* exit.                                                                   *)
C29_ExitStatusIgnored ==
  /\ [](pc = "done" =>
          \A q \in 1..Len(trace) :
            trace[q].ev = "spawn" => Events("exit", trace[q].n) # {})
  /\ [][(pc = "wait" /\ reader' = reader) =>
          \/ /\ \E status \in {0, 1} : ExitRecorded(status)
             /\ ai' = ai + 1 /\ pc' = "apply"
          \/ /\ trace' = trace
             /\ pc' = "fatal"]_vars

(* C29 witness: the first command has exited with a status other than 0    *)
(* and the command of a later script has been spawned                      *)
C29_Witness ==
  \E p, q \in 1..Len(trace) :
    /\ p < q
    /\ trace[p].ev = "exit" /\ trace[p].status = 1
    /\ trace[q].ev = "spawn" /\ trace[q].n > trace[p].n

(* the text between the first head and the first tail of the token, where  *)
(* the head comes first; none otherwise                                    *)
Enclosed(tok) ==
  LET heads == {i \in 1..Len(tok) : tok[i] = ">"}
      tails == {i \in 1..Len(tok) : tok[i] = "<"}
  IN IF heads # {} /\ tails # {} /\ FirstOf(heads) < FirstOf(tails)
     THEN SubSeq(tok, FirstOf(heads) + 1, FirstOf(tails) - 1)
     ELSE <<>>

(* the text is written as an integer of 8 bits: a sign or none, then       *)
(* digits, within -128..127                                                *)
WrittenAsI8(txt) ==
  \E sign \in {<<>>, <<"+">>, <<"-">>} : \E k \in 1..Len(txt) :
    /\ txt = sign \o SubSeq(txt, Len(sign) + 1, Len(txt))
    /\ k = Len(txt) - Len(sign)
    /\ \A m \in (Len(sign) + 1)..Len(txt) : IsDigit(txt[m])
    /\ digits_val(SubSeq(txt, Len(sign) + 1, Len(txt)))
         <= (IF sign = <<"-">> THEN 128 ELSE 127)

(* the token encloses a text that is not an 8-bit integer *)
BadNumber(tok) == Enclosed(tok) # <<>> /\ ~WrittenAsI8(Enclosed(tok))

(* script n is to be resolved and a token of its command has a bad number  *)
BadReference(n) ==
  LET tokens == data_items(scripts[n].line) IN
  /\ Processed(n)
  /\ NotSkipped(tokens)
  /\ \E t \in 2..Len(tokens) : BadNumber(tokens[t])

====
